---------------------------- MODULE Spec2Model ----------------------------
(***************************************************************************)
(* Perception-and-control core of the drone AI (System 1):                 *)
(*   PerceptionModule.process_state   (perception_module.py)               *)
(*   ControlModule.execute_command    (control_module.py)                  *)
(*                                                                         *)
(* Floating point numbers are modelled in fixed point:                     *)
(*   lengths            centimetres            (PosScale  = 100 per m)     *)
(*   velocities         centimetres per second                             *)
(*   times to collision milliseconds           (TimeScale = 1000 per s)    *)
(*   angles             milliradians           (TrigScale = 1000 per rad)  *)
(*   cos / sin          thousandths            (TrigScale)                 *)
(*   Kalman error       1e-4                   (ErrScale  = 10000)         *)
(*   actuator channels  1 / 200000             (OutScale)                  *)
(* With errors in centimetres and dt = 1/200 s the PID output is an exact  *)
(* integer in OutScale units: kp*e = 4000 e, ki*sum(e*dt) = sum(e),        *)
(* kd*(e - prev)/dt = 200000 (e - prev).                                   *)
(***************************************************************************)
EXTENDS Integers, Sequences, FiniteSets, TLC

VARIABLES
    \* ---- PerceptionModule ----
    position_filter,       \* SimpleKalmanFilter: [estimate, estimate_error]
    target_filter,         \* SimpleKalmanFilter
    position_history,      \* list of <<timestamp, position>>
    target_history,
    velocity_history,
    \* ---- ControlModule ----
    current_command,       \* Optional[ControlCommand]: <<>> or <<cmd>>
    current_mode,          \* ControlMode
    command_start_time,
    position_controller,   \* PIDController3D: [prev_error, integral]
    orientation_controller,
    emergency_mode,
    emergency_reason,
    hover_target,          \* attribute created lazily: <<>> or <<vec>>
    control_history,
    \* ---- the caller (one tick = process_state, then execute_command) ----
    clock,                 \* time.time(), a logical clock
    phase,                 \* "perceive" or "control"
    ticks,                 \* completed calls of execute_command
    sim_state,             \* last snapshot given to process_state: <<>> or <<s>>
    perception,            \* last PerceptionState returned: <<>> or <<p>>
    command,               \* last command given to execute_command: <<>> or <<c>>
    drone_cmd,             \* last DroneCommand returned: <<>> or <<d>>
    set_point,             \* set-point of the law that produced drone_cmd
    law_cmd,               \* the DroneCommand of that law, before _apply_safety_limits
    law_output,            \* control_output of that law, after its scaling
    raised,                \* exception that left the last call, "" if none
    \* ---- a SimpleKalmanFilter driven on its own (SpecKalman) ----
    kalman_calls,          \* calls of position_filter.update made directly
    kalman_fed,            \* the measurements given to those calls
    kalman_returned,       \* what the last of those calls returned: <<>> or <<v>>
    \* ---- a PIDController3D driven on its own (SpecPID) ----
    pid_bench,             \* position_controller's calls and a freshly built twin
    \* ---- SimInterface and the two threads that share it (SpecHandoff) ----
    sim_interface,         \* connected, running, latest_state
    socket,                \* recv calls made, and the snapshots parsed from them
    listener,              \* the listener thread: its position and its locals
    control_loop,          \* the reader: what get_latest_state returned last
    scenario               \* the scenario the inputs are drawn from

vars == <<position_filter, target_filter, position_history, target_history,
          velocity_history, current_command, current_mode, command_start_time,
          position_controller, orientation_controller, emergency_mode,
          emergency_reason, hover_target, control_history, clock, phase, ticks,
          sim_state, perception, command, drone_cmd, set_point, law_cmd,
          law_output, raised, kalman_calls, kalman_fed, kalman_returned, pid_bench,
          sim_interface, socket, listener, control_loop, scenario>>

perception_vars == <<position_filter, target_filter, position_history,
                     target_history, velocity_history>>

kalman_vars == <<kalman_calls, kalman_fed, kalman_returned>>

interface_vars == <<sim_interface, socket, listener, control_loop>>

control_vars == <<current_command, current_mode, command_start_time,
                  position_controller, orientation_controller, emergency_mode,
                  emergency_reason, hover_target, control_history>>

-----------------------------------------------------------------------------
\* Scales of the fixed-point representation.
PosScale == 100
TimeScale == 1000
TrigScale == 1000
ErrScale == 10000
OutScale == 200000

\* float('inf')
Inf == 2000000000

\* Bounds of the model.
MaxTicks == 3

-----------------------------------------------------------------------------
\* Numeric helpers.

Abs(x) == IF x < 0 THEN -x ELSE x
Min(a, b) == IF a < b THEN a ELSE b
Max(a, b) == IF a > b THEN a ELSE b

\* np.clip(x, lo, hi)
clip(x, lo, hi) == IF x < lo THEN lo ELSE IF x > hi THEN hi ELSE x

\* a / b rounded to the nearest integer (b > 0): the fixed-point quotient.
RDiv(a, b) == (2 * a + b) \div (2 * b)

\* floor(a * b / c) for b >= 0, c > 0, without forming a * b.
MulDiv(a, b, c) == (a \div c) * b + ((a % c) * b) \div c

\* floor(sqrt(n)), by bisection.
RECURSIVE SqrtSearch(_, _, _)
SqrtSearch(n, lo, hi) ==
    IF lo >= hi THEN lo
    ELSE LET mid == (lo + hi + 1) \div 2
         IN  IF mid * mid <= n THEN SqrtSearch(n, mid, hi)
             ELSE SqrtSearch(n, lo, mid - 1)

ISqrt(n) == IF n <= 0 THEN 0 ELSE SqrtSearch(n, 0, Min(n, 46340))

\* 3-vectors (np.array of three floats).
Zero3 == <<0, 0, 0>>
VAdd(a, b) == <<a[1] + b[1], a[2] + b[2], a[3] + b[3]>>
VSub(a, b) == <<a[1] - b[1], a[2] - b[2], a[3] - b[3]>>
Dot(a, b) == a[1] * b[1] + a[2] * b[2] + a[3] * b[3]
\* np.linalg.norm, rounded down: Norm(v) < k iff |v| < k for an integer k.
Norm(v) == ISqrt(Dot(v, v))

\* np.linalg.norm(v) < 0.001 (a tenth of a centimetre): every component is 0.
NearZero(v) == Dot(v, v) < 1

\* np.linalg.norm(v) < k, without the square root.
NormLess(v, k) == k > 0 /\ Dot(v, v) < k * k

\* Optional values: None is <<>>, a value v is <<v>>.
None == <<>>
Some(v) == <<v>>
IsNone(o) == Len(o) = 0
Get(o) == o[1]

\* max() of a list of numbers; Python raises ValueError on an empty list.
RECURSIVE SeqMax(_)
SeqMax(s) == IF Len(s) = 1 THEN s[1] ELSE Max(s[1], SeqMax(Tail(s)))

-----------------------------------------------------------------------------
\* SimpleKalmanFilter (perception_module.py)

process_noise == 1000          \* 0.1
measurement_noise == 5000      \* 0.5
initial_estimate_error == 10000 \* 1.0

KalmanInit == [estimate |-> None, estimate_error |-> initial_estimate_error]

\* predicted_error = estimate_error + process_noise
predicted_error(f) == f.estimate_error + process_noise

\* The gain taken from the stored error instead of the predicted one.
GainTimes_stored_error(f, x) == RDiv(f.estimate_error * x, f.estimate_error + measurement_noise)

\* kalman_gain * x, kalman_gain = predicted_error / (predicted_error + measurement_noise)
GainTimes(f, x) == RDiv(predicted_error(f) * x, predicted_error(f) + measurement_noise)

\* A filter whose first update seeds the estimate with zero.
KalmanUpdate_seed_zero(f, measurement) ==
    IF IsNone(f.estimate)
    THEN [f EXCEPT !.estimate = Some(Zero3)]
    ELSE LET e == Get(f.estimate)
             d == VSub(measurement, e)
         IN  [estimate |-> Some(<<e[1] + GainTimes(f, d[1]),
                                  e[2] + GainTimes(f, d[2]),
                                  e[3] + GainTimes(f, d[3])>>),
              estimate_error |-> predicted_error(f) - GainTimes(f, predicted_error(f))]

\* The filter after update(measurement).
KalmanUpdate(f, measurement) ==
    IF IsNone(f.estimate)
    THEN [f EXCEPT !.estimate = Some(measurement)]
    ELSE LET e == Get(f.estimate)
             d == VSub(measurement, e)
         IN  [estimate |-> Some(<<e[1] + GainTimes(f, d[1]),
                                  e[2] + GainTimes(f, d[2]),
                                  e[3] + GainTimes(f, d[3])>>),
              \* (1 - kalman_gain) * predicted_error
              estimate_error |-> predicted_error(f) - GainTimes(f, predicted_error(f))]

\* What update(measurement) returns: the measurement itself on the first call,
\* the new estimate afterwards.
KalmanReturn(f, measurement) ==
    IF IsNone(f.estimate) THEN measurement
    ELSE Get(KalmanUpdate(f, measurement).estimate)

-----------------------------------------------------------------------------
\* PerceptionModule: threat analysis

collision_lookahead_time == 2000   \* 2.0 s
min_safe_distance == 300           \* 3.0 m
critical_distance == 150           \* 1.5 m
check_distance == 1000             \* 10.0 m
max_history_size == 50

\* obstacle.get(key, default): an obstacle is a record of optional fields.
default_position == <<0, 0, 0>>
default_size == <<100, 100, 100>>
default_velocity == <<0, 0, 0>>
ObsPosition(o) == IF IsNone(o.position) THEN default_position ELSE Get(o.position)
ObsSize(o) == IF IsNone(o.size) THEN default_size ELSE Get(o.size)
ObsVelocity(o) == IF IsNone(o.velocity) THEN default_velocity ELSE Get(o.velocity)

\* max(obs_size) raises ValueError when the obstacle's size list is empty.
MaxRaises(o) == Len(ObsSize(o)) = 0

\* _calculate_avoidance_vector(rel_pos, obs_size)
calculate_avoidance_vector(rel_pos, obs_size) ==
    IF NearZero(rel_pos)
    THEN <<0, PosScale, 0>>
    ELSE LET n == Norm(rel_pos)
             safety_margin == SeqMax(obs_size) + min_safe_distance
         IN  <<RDiv(-rel_pos[1] * safety_margin, n),
               RDiv(-rel_pos[2] * safety_margin, n),
               RDiv(-rel_pos[3] * safety_margin, n)>>

\* Closest approach of the relative straight-line motion:
\* [t |-> t_closest in ms, d |-> closest_distance].
ClosestApproach(rel_pos, rel_vel) ==
    LET vv  == Dot(rel_vel, rel_vel)
        \* t_closest = max(0, -(rp.rv) / (rv.rv)) = num / vv
        num == Max(0, -Dot(rel_pos, rel_vel))
        closest_pos == <<rel_pos[1] + RDiv(rel_vel[1] * num, vv),
                         rel_pos[2] + RDiv(rel_vel[2] * num, vv),
                         rel_pos[3] + RDiv(rel_vel[3] * num, vv)>>
    IN  [t |-> (TimeScale * num) \div vv, d |-> Norm(closest_pos)]

\* time_to_collision = t_closest if closest_distance < max(obs_size) else inf
TimeToCollision(ca, obs_size) == IF ca.d < SeqMax(obs_size) THEN ca.t ELSE Inf

\* A threat test on the closest distance alone.
IsThreat_by_distance(closest_distance, time_to_collision, obs_size) ==
    closest_distance < SeqMax(obs_size) + min_safe_distance

\* is_threat = closest_distance < safe_distance and time_to_collision < lookahead
IsThreat(closest_distance, time_to_collision, obs_size) ==
    /\ closest_distance < SeqMax(obs_size) + min_safe_distance
    /\ time_to_collision < collision_lookahead_time

\* _analyze_collision_risk(drone_pos, drone_vel, obstacle); MaxRaises(obstacle)
\* is false here.
analyze_collision_risk(drone_pos, drone_vel, obstacle) ==
    LET obs_size == ObsSize(obstacle)
        rel_pos  == VSub(ObsPosition(obstacle), drone_pos)
        rel_vel  == VSub(ObsVelocity(obstacle), drone_vel)
        still    == NearZero(rel_vel)
        ca       == IF still THEN [t |-> Inf, d |-> Norm(rel_pos)]
                    ELSE ClosestApproach(rel_pos, rel_vel)
        closest_distance  == ca.d
        time_to_collision == IF still THEN Inf ELSE TimeToCollision(ca, obs_size)
    IN  [obstacle |-> obstacle,
         is_threat |-> IsThreat(closest_distance, time_to_collision, obs_size),
         closest_distance |-> closest_distance,
         time_to_collision |-> time_to_collision,
         t_closest |-> ca.t,
         moving |-> ~still,
         urgency |-> IF closest_distance < critical_distance
                     THEN "critical" ELSE "warning",
         avoidance_vector |-> calculate_avoidance_vector(rel_pos, obs_size)]

\* list.sort(key = time_to_collision): a stable sort, here by insertion.
RECURSIVE InsertByTime(_, _)
InsertByTime(sorted, x) ==
    IF sorted = <<>> THEN <<x>>
    ELSE LET last == sorted[Len(sorted)]
         IN  IF last.time_to_collision <= x.time_to_collision
             THEN Append(sorted, x)
             ELSE Append(InsertByTime(SubSeq(sorted, 1, Len(sorted) - 1), x), last)

RECURSIVE SortByTime(_)
SortByTime(s) ==
    IF s = <<>> THEN <<>>
    ELSE InsertByTime(SortByTime(SubSeq(s, 1, Len(s) - 1)), s[Len(s)])

\* The threat_info of every obstacle, in the order of the obstacle list.
RECURSIVE ThreatInfos(_, _, _)
ThreatInfos(drone_pos, drone_vel, obstacles) ==
    IF obstacles = <<>> THEN <<>>
    ELSE <<analyze_collision_risk(drone_pos, drone_vel, Head(obstacles))>>
         \o ThreatInfos(drone_pos, drone_vel, Tail(obstacles))

\* The threats in the order of the obstacle list.
detect_immediate_threats_unsorted(drone_pos, drone_vel, obstacles) ==
    SelectSeq(ThreatInfos(drone_pos, drone_vel, obstacles), LAMBDA t : t.is_threat)

\* _detect_immediate_threats(drone_pos, drone_vel, obstacles)
detect_immediate_threats(drone_pos, drone_vel, obstacles) ==
    SortByTime(SelectSeq(ThreatInfos(drone_pos, drone_vel, obstacles),
                         LAMBDA t : t.is_threat))

-----------------------------------------------------------------------------
\* PerceptionModule: safe-direction sampling

\* np.linspace(0, 2*pi, 16) and np.linspace(-pi/4, pi/4, 5), in milliradians.
azimuth_samples == <<0, 419, 838, 1257, 1676, 2094, 2513, 2932,
                     3351, 3770, 4189, 4608, 5027, 5445, 5864, 6283>>
elevation_samples == <<-785, -393, 0, 393, 785>>

\* <<angle, 1000 cos(angle), 1000 sin(angle)>> for the sampled angles.
TrigTable ==
    { <<0, 1000, 0>>, <<419, 914, 407>>, <<838, 669, 743>>, <<1257, 309, 951>>,
      <<1676, -105, 995>>, <<2094, -500, 866>>, <<2513, -809, 588>>,
      <<2932, -978, 208>>, <<3351, -978, -208>>, <<3770, -809, -588>>,
      <<4189, -500, -866>>, <<4608, -105, -995>>, <<5027, 309, -951>>,
      <<5445, 669, -743>>, <<5864, 914, -407>>, <<6283, 1000, 0>>,
      <<-785, 707, -707>>, <<-393, 924, -383>>, <<393, 924, 383>>,
      <<785, 707, 707>> }

\* np.cos, np.sin on the sampled angles.
Cos(a) == (CHOOSE e \in TrigTable : e[1] = a)[2]
Sin(a) == (CHOOSE e \in TrigTable : e[1] = a)[3]

\* The vector of length `length` along direction = <<azimuth, elevation>>:
\* [cos(el) cos(az), sin(el), cos(el) sin(az)] * length.
DirVector(direction, length) ==
    LET azimuth == direction[1]
        elevation == direction[2]
        ux == RDiv(Cos(elevation) * Cos(azimuth), TrigScale)
        uy == Sin(elevation)
        uz == RDiv(Cos(elevation) * Sin(azimuth), TrigScale)
    IN  <<RDiv(ux * length, TrigScale), RDiv(uy * length, TrigScale),
          RDiv(uz * length, TrigScale)>>

\* The direction test without the min_safe_distance margin.
is_direction_safe_no_margin(drone_pos, direction, obstacles) ==
    LET check_pos == VAdd(drone_pos, DirVector(direction, check_distance))
    IN  \A k \in 1..Len(obstacles) :
            ~NormLess(VSub(check_pos, ObsPosition(obstacles[k])),
                      SeqMax(ObsSize(obstacles[k])))

\* _is_direction_safe(drone_pos, direction, obstacles, threats)
is_direction_safe(drone_pos, direction, obstacles) ==
    LET check_pos == VAdd(drone_pos, DirVector(direction, check_distance))
    IN  \A k \in 1..Len(obstacles) :
            LET obs_pos  == ObsPosition(obstacles[k])
                obs_size == SeqMax(ObsSize(obstacles[k]))
                offset   == VSub(check_pos, obs_pos)
            IN  \* distance < obs_size + min_safe_distance means unsafe
                ~NormLess(offset, obs_size + min_safe_distance)

\* The sampled directions in the order of the two nested loops.
SampledDirections ==
    [n \in 1..(Len(azimuth_samples) * Len(elevation_samples)) |->
        <<azimuth_samples[((n - 1) \div Len(elevation_samples)) + 1],
          elevation_samples[((n - 1) % Len(elevation_samples)) + 1]>>]

\* _calculate_safe_directions(drone_pos, obstacles, threats)
calculate_safe_directions(drone_pos, obstacles) ==
    SelectSeq(SampledDirections,
              LAMBDA d : is_direction_safe(drone_pos, d, obstacles))

-----------------------------------------------------------------------------
\* PerceptionModule: target range and bearing

Pi == 3142          \* np.pi in milliradians
TwoPi == 6283       \* 2 * np.pi

\* arctan(n / d) for 0 <= n <= d, d > 0, in milliradians:
\* r (pi/4 + 0.273 (1 - r)), within 4 mrad of the true value.
AtanUnit(n, d) ==
    LET r == RDiv(TrigScale * n, d)
    IN  RDiv(r * (785 + RDiv(273 * (TrigScale - r), TrigScale)), TrigScale)

\* np.arctan2(y, x) in milliradians, in (-pi, pi].
arctan2(y, x) ==
    LET ay == Abs(y)
        ax == Abs(x)
        \* the angle of (ax, ay) in the first quadrant
        q  == IF ax = 0 /\ ay = 0 THEN 0
              ELSE IF ay <= ax THEN AtanUnit(ay, ax)
              ELSE 1571 - AtanUnit(ax, ay)
        h  == IF x < 0 THEN Pi - q ELSE q
    IN  IF y < 0 THEN -h ELSE h

\* A target info that reports distance zero for an absent target.
calculate_target_info_absent_is_zero(drone_pos, target_pos) ==
    IF IsNone(target_pos)
    THEN [distance |-> 0, bearing |-> <<0, 0>>]
    ELSE LET d == VSub(Get(target_pos), drone_pos)
             horizontal_distance == ISqrt(d[1] * d[1] + d[3] * d[3])
         IN  [distance |-> Norm(d),
              bearing |-> <<arctan2(d[3], d[1]),
                            arctan2(d[2], horizontal_distance)>>]

\* _calculate_target_info(drone_pos, target_pos)
calculate_target_info(drone_pos, target_pos) ==
    IF IsNone(target_pos)
    THEN [distance |-> Inf, bearing |-> <<0, 0>>]
    ELSE LET d == VSub(Get(target_pos), drone_pos)
             horizontal_distance == ISqrt(d[1] * d[1] + d[3] * d[3])
         IN  [distance |-> Norm(d),
              bearing |-> <<arctan2(d[3], d[1]),
                            arctan2(d[2], horizontal_distance)>>]

\* _calculate_flight_envelope(drone_state, obstacles): the entries that depend
\* on the state (battery_level in percent).
calculate_flight_envelope(drone_state) ==
    [battery_limit_factor |-> drone_state.battery_level,
     emergency_reserves |-> drone_state.battery_level > 20]

\* list.append(x), then pop(0) when the list is longer than max_history_size.
AppendCapped(history, x) ==
    LET h == Append(history, x)
    IN  IF Len(h) > max_history_size THEN Tail(h) ELSE h

-----------------------------------------------------------------------------
\* PerceptionModule.process_state

\* A target filter that is constructed anew whenever the target is lost.
update_target_filter_reset_when_lost(f, target) ==
    IF target.is_visible THEN KalmanUpdate(f, target.position) ELSE KalmanInit

\* `if sim_state.target.is_visible: self.target_filter.update(...)`: the
\* target filter after process_state
update_target_filter(f, target) ==
    IF target.is_visible THEN KalmanUpdate(f, target.position) ELSE f

\* The call raises (ValueError from max([])) in _detect_immediate_threats when
\* some obstacle carries an empty size list.
ProcessRaises(s) == \E k \in 1..Len(s.obstacles) : MaxRaises(s.obstacles[k])

\* The PerceptionState that process_state(s) returns at time `now`.
process_state(s, now) ==
    LET filtered_position == KalmanReturn(position_filter, s.drone.position)
        filtered_target_pos ==
            IF s.target.is_visible
            THEN Some(KalmanReturn(target_filter, s.target.position))
            ELSE None
        info == calculate_target_info(filtered_position, filtered_target_pos)
        immediate_threats ==
            detect_immediate_threats(filtered_position, s.drone.velocity, s.obstacles)
    IN  [timestamp |-> now,
         drone_position |-> filtered_position,
         drone_velocity |-> s.drone.velocity,
         target_position |-> filtered_target_pos,
         target_velocity |-> IF s.target.is_visible
                             THEN Some(s.target.velocity) ELSE None,
         target_visible |-> s.target.is_visible,
         target_distance |-> info.distance,
         target_bearing |-> info.bearing,
         obstacles |-> s.obstacles,
         immediate_threats |-> immediate_threats,
         safe_directions |-> calculate_safe_directions(filtered_position, s.obstacles),
         battery_level |-> s.drone.battery_level,
         flight_envelope |-> calculate_flight_envelope(s.drone)]

-----------------------------------------------------------------------------
\* PIDController3D (control_module.py)

update_rate_hz == 200           \* update_interval = dt = 1 / 200 s

\* Gains in hundredths: position kp = 2.0, ki = 0.1, kd = 0.5;
\* orientation kp = (3.0, 3.0, 1.5), ki = (0.1, 0.1, 0.05), kd = (0.8, 0.8, 0.3).
PIDInit(kp, ki, kd) ==
    [kp |-> kp, ki |-> ki, kd |-> kd, prev_error |-> Zero3, integral |-> Zero3]

position_controller_init == PIDInit(<<200, 200, 200>>, <<10, 10, 10>>, <<50, 50, 50>>)
orientation_controller_init == PIDInit(<<300, 300, 150>>, <<10, 10, 5>>, <<80, 80, 30>>)

\* The integral is kept in centimetre-ticks: integral += error * dt, with
\* dt = 1 / update_rate_hz, is integral += error in these units.
PIDIntegrate(integral, error) == VAdd(integral, error)

\* The controller after update(error, dt).
PIDUpdate(pid, error) ==
    [pid EXCEPT !.integral = PIDIntegrate(pid.integral, error),
                !.prev_error = error]

\* output = kp * error + ki * integral + kd * (error - prev_error) / dt on one
\* axis, in OutScale units (exact for the gains above).
PIDAxis(pid, error, i) ==
    LET unit == OutScale \div PosScale
        integral == PIDIntegrate(pid.integral, error)
        p_term == ((unit * pid.kp[i]) \div 100) * error[i]
        i_term == (((unit * pid.ki[i]) \div 100) * integral[i]) \div update_rate_hz
        d_term == ((unit * pid.kd[i] * update_rate_hz) \div 100)
                      * (error[i] - pid.prev_error[i])
    IN  p_term + i_term + d_term

\* What update(error, dt) returns.
PIDOutput(pid, error) ==
    <<PIDAxis(pid, error, 1), PIDAxis(pid, error, 2), PIDAxis(pid, error, 3)>>

\* A reset that clears the previous error and keeps the integral.
PIDReset_keeps_integral(pid) == [pid EXCEPT !.prev_error = Zero3]

\* reset()
PIDReset(pid) == [pid EXCEPT !.prev_error = Zero3, !.integral = Zero3]

-----------------------------------------------------------------------------
\* ControlModule: limits and the emergency check

ControlModes == {"manual", "waypoint", "intercept", "avoid", "emergency", "hover"}

max_thrust == 160000        \* 0.8
max_tilt_rad == 157080      \* np.radians(45.0)
min_altitude == 100         \* 1.0 m
max_altitude == 10000       \* 100.0 m
battery_emergency == 15     \* percent
forced_climb_thrust == 120000   \* 0.6
hover_thrust == 100000      \* 0.5
control_history_limit == 1000
control_history_keep == 500

\* f"{x:.1f}" of a time in milliseconds.
FormatTenths(ms) ==
    LET tenths == RDiv(ms, 100)
    IN  ToString(tenths \div 10) \o "." \o ToString(tenths % 10)

\* The first threat of the list whose urgency is critical, if any.
CriticalThreats(p) == SelectSeq(p.immediate_threats, LAMBDA t : t.urgency = "critical")

\* The reason _check_emergency_conditions gives to _trigger_emergency for
\* perception p, "" when no emergency condition holds.
EmergencyCondition(p) ==
    IF p.battery_level < battery_emergency THEN "Low battery"
    ELSE IF CriticalThreats(p) # <<>>
         THEN "Collision threat: "
              \o FormatTenths(CriticalThreats(p)[1].time_to_collision) \o "s"
    ELSE IF p.drone_position[2] < min_altitude THEN "Below minimum altitude"
    ELSE IF p.drone_position[2] > max_altitude THEN "Above maximum altitude"
    ELSE ""

\* _trigger_emergency(reason) on the state [mode, reason]
trigger_emergency(em, reason) ==
    IF ~em.mode THEN [mode |-> TRUE, reason |-> reason] ELSE em

\* An emergency check that looks at the battery only.
check_emergency_conditions_battery_only(em, p) ==
    IF p.battery_level < battery_emergency
    THEN trigger_emergency(em, "Low battery")
    ELSE IF em.mode THEN [mode |-> FALSE, reason |-> ""] ELSE em

\* An emergency check that never clears the flag once it is set.
check_emergency_conditions_never_cleared(em, p) ==
    IF EmergencyCondition(p) # ""
    THEN trigger_emergency(em, EmergencyCondition(p))
    ELSE em

\* _check_emergency_conditions(perception): the new [mode, reason]
check_emergency_conditions(em, p) ==
    IF EmergencyCondition(p) # ""
    THEN trigger_emergency(em, EmergencyCondition(p))
    ELSE IF em.mode THEN [mode |-> FALSE, reason |-> ""] ELSE em

-----------------------------------------------------------------------------
\* ControlModule: the control laws.  Each law takes the perception p, the
\* incoming command c, the control state st = [pid, hover_target] and the
\* time, and yields [cmd, pid, hover_target, target_pos, output, law].

DroneCommand(now, thrust, pitch, roll, yaw, flags) ==
    [timestamp |-> now, thrust |-> thrust, pitch |-> pitch, roll |-> roll,
     yaw |-> yaw, mode_flags |-> flags]

\* control_output *= factor, factor = min(cap, distance / per), cap a whole number
Scaled(out, distance, per, cap) ==
    IF distance >= cap * per
    THEN <<cap * out[1], cap * out[2], cap * out[3]>>
    ELSE <<MulDiv(out[1], distance, per), MulDiv(out[2], distance, per),
           MulDiv(out[3], distance, per)>>

\* An Emergency law that computes its command without updating the PID.
execute_emergency_control_pid_frozen(p, st, now) ==
    LET current_pos == p.drone_position
        target_pos == [current_pos EXCEPT ![2] = Max(50, current_pos[2] - 100)]
        position_error == VSub(target_pos, current_pos)
        control_output == PIDOutput(st.pid, position_error)
    IN  [cmd |-> DroneCommand(now,
                     Max(60000, Min(120000, hover_thrust + control_output[2])),
                     clip(RDiv(control_output[1], 10), -60000, 60000),
                     clip(RDiv(control_output[3], 10), -60000, 60000),
                     0, {"emergency", "landing"}),
         pid |-> st.pid,
         hover_target |-> st.hover_target,
         target_pos |-> target_pos,
         output |-> control_output,
         law |-> "emergency"]

\* An Emergency law that does not limit pitch and roll.
execute_emergency_control_full_tilt(p, st, now) ==
    LET current_pos == p.drone_position
        target_pos == [current_pos EXCEPT ![2] = Max(50, current_pos[2] - 100)]
        position_error == VSub(target_pos, current_pos)
        control_output == PIDOutput(st.pid, position_error)
    IN  [cmd |-> DroneCommand(now,
                     Max(60000, Min(120000, hover_thrust + control_output[2])),
                     clip(RDiv(control_output[1], 10), -OutScale, OutScale),
                     clip(RDiv(control_output[3], 10), -OutScale, OutScale),
                     0, {"emergency", "landing"}),
         pid |-> PIDUpdate(st.pid, position_error),
         hover_target |-> st.hover_target,
         target_pos |-> target_pos,
         output |-> control_output,
         law |-> "emergency"]

\* _execute_emergency_control(perception)
execute_emergency_control(p, st, now) ==
    LET current_pos == p.drone_position
        \* descend 1 m but not below 0.5 m
        target_pos == [current_pos EXCEPT ![2] = Max(50, current_pos[2] - 100)]
        position_error == VSub(target_pos, current_pos)
        control_output == PIDOutput(st.pid, position_error)
    IN  [cmd |-> DroneCommand(now,
                     Max(60000, Min(120000, hover_thrust + control_output[2])),
                     clip(RDiv(control_output[1], 10), -60000, 60000),
                     clip(RDiv(control_output[3], 10), -60000, 60000),
                     0, {"emergency", "landing"}),
         pid |-> PIDUpdate(st.pid, position_error),
         hover_target |-> st.hover_target,
         target_pos |-> target_pos,
         output |-> control_output,
         law |-> "emergency"]

\* The set-point of _execute_hover_control: the attribute hover_target, created
\* from the current position when the object has none.
HoverSetPoint(ht, current_pos) ==
    IF IsNone(ht) THEN current_pos ELSE Get(ht)

\* _execute_hover_control(perception)
execute_hover_control(p, st, now) ==
    LET current_pos == p.drone_position
        target == HoverSetPoint(st.hover_target, current_pos)
        position_error == VSub(target, current_pos)
        control_output == PIDOutput(st.pid, position_error)
    IN  [cmd |-> DroneCommand(now,
                     clip(hover_thrust + control_output[2], 0, OutScale),
                     clip(control_output[1], -100000, 100000),
                     clip(control_output[3], -100000, 100000),
                     0, {"hover"}),
         pid |-> PIDUpdate(st.pid, position_error),
         hover_target |-> Some(target),
         target_pos |-> target,
         output |-> control_output,
         law |-> "hover"]

\* A Waypoint law with pitch and roll taken from the wrong axes.
execute_waypoint_control_axes_swapped(c, p, st, now) ==
    IF IsNone(c.target_position) THEN execute_hover_control(p, st, now)
    ELSE
    LET current_pos == p.drone_position
        target_pos == Get(c.target_position)
        position_error == VSub(target_pos, current_pos)
        distance == Norm(position_error)
        control_output == Scaled(PIDOutput(st.pid, position_error), distance, 500, 1)
    IN  [cmd |-> DroneCommand(now,
                     clip(hover_thrust + control_output[2], 0, OutScale),
                     clip(control_output[3], -140000, 140000),
                     clip(control_output[1], -140000, 140000),
                     0, {"waypoint"}),
         pid |-> PIDUpdate(st.pid, position_error),
         hover_target |-> st.hover_target,
         target_pos |-> target_pos,
         output |-> control_output,
         law |-> "waypoint"]

\* _execute_waypoint_control(command, perception)
execute_waypoint_control(c, p, st, now) ==
    IF IsNone(c.target_position) THEN execute_hover_control(p, st, now)
    ELSE
    LET current_pos == p.drone_position
        target_pos == Get(c.target_position)
        position_error == VSub(target_pos, current_pos)
        distance == Norm(position_error)
        \* speed_factor = min(1.0, distance / 5.0)
        control_output == Scaled(PIDOutput(st.pid, position_error), distance, 500, 1)
    IN  [cmd |-> DroneCommand(now,
                     clip(hover_thrust + control_output[2], 0, OutScale),
                     clip(control_output[1], -140000, 140000),
                     clip(control_output[3], -140000, 140000),
                     0, {"waypoint"}),
         pid |-> PIDUpdate(st.pid, position_error),
         hover_target |-> st.hover_target,
         target_pos |-> target_pos,
         output |-> control_output,
         law |-> "waypoint"]

drone_speed == 1000         \* 10.0 m/s

\* _calculate_intercept_time(drone_pos, target_pos, target_vel), in ms.
\* The quadratic is solved on coefficients in units of 1000 cm^2.
calculate_intercept_time(drone_pos, target_pos, target_vel) ==
    LET relative_pos == VSub(target_pos, drone_pos)
        a == Dot(target_vel, target_vel) - drone_speed * drone_speed
        b == 2 * Dot(relative_pos, target_vel)
        c == Dot(relative_pos, relative_pos)
        ak == RDiv(a, 1000)
        bk == RDiv(b, 1000)
        ck == RDiv(c, 1000)
        discriminant == bk * bk - 4 * ak * ck
        root == ISqrt(discriminant)
        \* (-b + sqrt(d)) / (2a) and (-b - sqrt(d)) / (2a), the sign of a
        \* moved into the numerator
        sgn == IF ak < 0 THEN -1 ELSE 1
        t1 == RDiv(sgn * TimeScale * (-bk + root), 2 * Abs(ak))
        t2 == RDiv(sgn * TimeScale * (-bk - root), 2 * Abs(ak))
        intercept_time == IF t1 > 0 THEN t1 ELSE t2
    IN  IF discriminant < 0 \/ Abs(a) < 10 \/ ak = 0     \* abs(a) < 0.001
        THEN MulDiv(TimeScale, Norm(relative_pos), drone_speed)
        ELSE Max(100, intercept_time)

\* _execute_intercept_control(command, perception)
execute_intercept_control(c, p, st, now) ==
    IF IsNone(p.target_position) THEN execute_hover_control(p, st, now)
    ELSE
    LET current_pos == p.drone_position
        target_pos == Get(p.target_position)
        predicted_target_pos ==
            IF ~IsNone(p.target_velocity)
            THEN LET target_vel == Get(p.target_velocity)
                     t == calculate_intercept_time(current_pos, target_pos, target_vel)
                 IN  <<target_pos[1] + RDiv(target_vel[1] * t, TimeScale),
                       target_pos[2] + RDiv(target_vel[2] * t, TimeScale),
                       target_pos[3] + RDiv(target_vel[3] * t, TimeScale)>>
            ELSE target_pos
        intercept_vector == VSub(predicted_target_pos, current_pos)
        distance == Norm(intercept_vector)
        \* pursuit_factor = min(2.0, distance / 10.0)
        control_output == Scaled(PIDOutput(st.pid, intercept_vector), distance, 1000, 2)
    IN  [cmd |-> DroneCommand(now,
                     clip(hover_thrust + control_output[2], 0, max_thrust),
                     clip(control_output[1], -160000, 160000),
                     clip(control_output[3], -160000, 160000),
                     0, {"intercept", "aggressive"}),
         pid |-> PIDUpdate(st.pid, intercept_vector),
         hover_target |-> st.hover_target,
         target_pos |-> predicted_target_pos,
         output |-> control_output,
         law |-> "intercept"]

-----------------------------------------------------------------------------
\* ControlModule: avoidance

\* threat_weight = 1.0 / max(0.1, time_to_collision), in thousandths of 1/s
ThreatWeight(t) == RDiv(1000000, Max(100, t.time_to_collision))

RECURSIVE WeightedSum(_)
WeightedSum(threats) ==
    IF threats = <<>> THEN [v |-> Zero3, w |-> 0]
    ELSE LET rest == WeightedSum(Tail(threats))
             t == Head(threats)
             w == ThreatWeight(t)
         IN  [v |-> <<rest.v[1] + t.avoidance_vector[1] * w,
                      rest.v[2] + t.avoidance_vector[2] * w,
                      rest.v[3] + t.avoidance_vector[3] * w>>,
              w |-> rest.w + w]

\* The threat-weighted avoidance vector of _execute_avoidance_control.
AvoidanceVector(threats) ==
    LET s == WeightedSum(threats)
    IN  IF s.w > 0
        THEN <<RDiv(s.v[1], s.w), RDiv(s.v[2], s.w), RDiv(s.v[3], s.w)>>
        ELSE Zero3

\* The squared angular distance without the wrap of the azimuth difference.
AngularDistance2_no_wrap(direction, desired_azimuth, desired_elevation) ==
    LET azimuth_diff == Abs(direction[1] - desired_azimuth)
        elevation_diff == Abs(direction[2] - desired_elevation)
    IN  azimuth_diff * azimuth_diff + elevation_diff * elevation_diff

\* The squared angular distance of direction to the desired azimuth/elevation.
AngularDistance2(direction, desired_azimuth, desired_elevation) ==
    LET azimuth_diff == Abs(direction[1] - desired_azimuth)
        elevation_diff == Abs(direction[2] - desired_elevation)
        wrapped == Min(azimuth_diff, TwoPi - azimuth_diff)
    IN  wrapped * wrapped + elevation_diff * elevation_diff

\* The loop of _choose_best_safe_direction keeps the first direction of the
\* list whose angular distance is strictly below that of all earlier ones:
\* the first one of least angular distance.
BestOf(dirs, az, el) ==
    LET dist == [k \in 1..Len(dirs) |-> AngularDistance2(dirs[k], az, el)]
        best == CHOOSE k \in 1..Len(dirs) :
                    \A j \in 1..Len(dirs) :
                        dist[k] < dist[j] \/ (dist[k] = dist[j] /\ k <= j)
    IN  dirs[best]

\* _choose_best_safe_direction(desired_vector, safe_directions)
choose_best_safe_direction(desired_vector, safe_directions) ==
    IF safe_directions = <<>> THEN <<0, 0>>
    ELSE LET desired_azimuth == arctan2(desired_vector[3], desired_vector[1])
             desired_elevation ==
                 arctan2(desired_vector[2],
                         ISqrt(desired_vector[1] * desired_vector[1]
                               + desired_vector[3] * desired_vector[3]))
         IN  BestOf(safe_directions, desired_azimuth, desired_elevation)

\* An Avoid law whose thrust has no floor.
execute_avoidance_control_no_floor(c, p, st, now) ==
    LET current_pos == p.drone_position
        avoidance_vector == AvoidanceVector(p.immediate_threats)
        target_pos ==
            IF p.safe_directions # <<>>
            THEN VAdd(current_pos,
                      DirVector(choose_best_safe_direction(avoidance_vector,
                                                           p.safe_directions), 500))
            ELSE VAdd(VAdd(current_pos, <<0, 500, 0>>), avoidance_vector)
        position_error == VSub(target_pos, current_pos)
        control_output == PIDOutput(st.pid, position_error)
    IN  [cmd |-> DroneCommand(now,
                     clip(hover_thrust + control_output[2], 0, OutScale),
                     clip(control_output[1], -OutScale, OutScale),
                     clip(control_output[3], -OutScale, OutScale),
                     0, {"avoid", "emergency_maneuver"}),
         pid |-> PIDUpdate(st.pid, position_error),
         hover_target |-> st.hover_target,
         target_pos |-> target_pos,
         output |-> control_output,
         law |-> "avoid"]

\* _execute_avoidance_control(command, perception)
execute_avoidance_control(c, p, st, now) ==
    LET current_pos == p.drone_position
        avoidance_vector == AvoidanceVector(p.immediate_threats)
        target_pos ==
            IF p.safe_directions # <<>>
            THEN VAdd(current_pos,
                      DirVector(choose_best_safe_direction(avoidance_vector,
                                                           p.safe_directions), 500))
            ELSE VAdd(VAdd(current_pos, <<0, 500, 0>>), avoidance_vector)
        position_error == VSub(target_pos, current_pos)
        control_output == PIDOutput(st.pid, position_error)
    IN  [cmd |-> DroneCommand(now,
                     clip(hover_thrust + control_output[2], 60000, OutScale),
                     clip(control_output[1], -OutScale, OutScale),
                     clip(control_output[3], -OutScale, OutScale),
                     0, {"avoid", "emergency_maneuver"}),
         pid |-> PIDUpdate(st.pid, position_error),
         hover_target |-> st.hover_target,
         target_pos |-> target_pos,
         output |-> control_output,
         law |-> "avoid"]

-----------------------------------------------------------------------------
\* ControlModule: the safety limiter and the log

\* The limiter without the thrust clamp.
apply_safety_limits_no_thrust_clamp(cmd, p) ==
    LET pitch == clip(cmd.pitch, -max_tilt_rad, max_tilt_rad)
        roll == clip(cmd.roll, -max_tilt_rad, max_tilt_rad)
        yaw == clip(cmd.yaw, -OutScale, OutScale)
        current_altitude == p.drone_position[2]
        force == current_altitude < min_altitude /\ cmd.thrust < forced_climb_thrust
    IN  [cmd EXCEPT !.thrust = IF force THEN forced_climb_thrust ELSE cmd.thrust,
                    !.pitch = IF force THEN Max(pitch, 0) ELSE pitch,
                    !.roll = roll,
                    !.yaw = yaw]

\* The limiter whose low-altitude override leaves the pitch alone.
apply_safety_limits_no_pitch_floor(cmd, p) ==
    LET thrust == clip(cmd.thrust, 0, max_thrust)
        current_altitude == p.drone_position[2]
        force == current_altitude < min_altitude /\ thrust < forced_climb_thrust
    IN  [cmd EXCEPT !.thrust = IF force THEN forced_climb_thrust ELSE thrust,
                    !.pitch = clip(cmd.pitch, -max_tilt_rad, max_tilt_rad),
                    !.roll = clip(cmd.roll, -max_tilt_rad, max_tilt_rad),
                    !.yaw = clip(cmd.yaw, -OutScale, OutScale)]

\* _apply_safety_limits(command, perception)
apply_safety_limits(cmd, p) ==
    LET thrust == clip(cmd.thrust, 0, max_thrust)
        pitch == clip(cmd.pitch, -max_tilt_rad, max_tilt_rad)
        roll == clip(cmd.roll, -max_tilt_rad, max_tilt_rad)
        yaw == clip(cmd.yaw, -OutScale, OutScale)
        current_altitude == p.drone_position[2]
        force == current_altitude < min_altitude /\ thrust < forced_climb_thrust
    IN  [cmd EXCEPT !.thrust = IF force THEN forced_climb_thrust ELSE thrust,
                    !.pitch = IF force THEN Max(pitch, 0) ELSE pitch,
                    !.roll = roll,
                    !.yaw = yaw]

\* The entry _log_control_action appends.
LogEntry(now, mode, emergency, p, cmd) ==
    [timestamp |-> now, mode |-> mode, emergency |-> emergency,
     command |-> [thrust |-> cmd.thrust, pitch |-> cmd.pitch,
                  roll |-> cmd.roll, yaw |-> cmd.yaw],
     state |-> [position |-> p.drone_position,
                target_distance |-> p.target_distance,
                battery |-> p.battery_level,
                threats |-> Len(p.immediate_threats)]]

\* A log that is never cut.
log_control_action_uncut(history, entry) == Append(history, entry)

\* _log_control_action(command, perception, drone_cmd): the new control_history
log_control_action(history, entry) ==
    LET h == Append(history, entry)
    IN  IF Len(h) > control_history_limit
        THEN SubSeq(h, Len(h) - control_history_keep + 1, Len(h))
        ELSE h

\* A dispatch whose last branch is the Emergency law.
Dispatch_else_emergency(em, mode, c, p, st, now) ==
    IF em THEN execute_emergency_control(p, st, now)
    ELSE IF mode = "hover" THEN execute_hover_control(p, st, now)
    ELSE IF mode = "waypoint" THEN execute_waypoint_control(c, p, st, now)
    ELSE IF mode = "intercept" THEN execute_intercept_control(c, p, st, now)
    ELSE IF mode = "avoid" THEN execute_avoidance_control(c, p, st, now)
    ELSE execute_emergency_control(p, st, now)

\* The dispatch of execute_command on emergency_mode and current_mode.
Dispatch(em, mode, c, p, st, now) ==
    IF em THEN execute_emergency_control(p, st, now)
    ELSE IF mode = "hover" THEN execute_hover_control(p, st, now)
    ELSE IF mode = "waypoint" THEN execute_waypoint_control(c, p, st, now)
    ELSE IF mode = "intercept" THEN execute_intercept_control(c, p, st, now)
    ELSE IF mode = "avoid" THEN execute_avoidance_control(c, p, st, now)
    ELSE execute_hover_control(p, st, now)

\* Adoption by comparing the whole command.
IsNewCommand_by_content(cur, c) == IsNone(cur) \/ c # Get(cur)

\* Whether execute_command adopts c as the current command.
IsNewCommand(cur, c) == IsNone(cur) \/ c.command_id # Get(cur).command_id

-----------------------------------------------------------------------------
\* Inputs: snapshots (SimulationState) and commands (ControlCommand).
\* Every behaviour draws its snapshots and commands from one scenario, fixed
\* at the start (the variable scenario).

Obstacle(position, size, velocity) ==
    [position |-> position, size |-> size, velocity |-> velocity]

\* The drone flies along +x at 2 m/s from (0, 5, 0) in the threat scenarios.
\* 2 m box on the path, 3 m ahead: closest distance 0 after 1.5 s
ObsOnPath == Obstacle(Some(<<300, 500, 0>>), Some(<<200, 200, 200>>), None)
\* 2 m box 1.6 m beside the path, 1 m ahead: passes inside the box size after 0.5 s
ObsGraze == Obstacle(Some(<<100, 660, 0>>), Some(<<200, 100, 200>>), None)
\* the same, 3 m ahead: after 1.5 s
ObsGrazeFar == Obstacle(Some(<<300, 660, 0>>), Some(<<200, 200, 200>>), None)
\* 2 m box 3.5 m beside the path: outside the box size, inside size + margin
ObsNear == Obstacle(Some(<<300, 850, 0>>), Some(<<200, 200, 200>>), None)
\* an obstacle coming at the drone; no size given
ObsMoving == Obstacle(Some(<<700, 500, 0>>), None, Some(<<-400, 0, 0>>))
\* 2 m box 1.6 m to the side (+z) of the path, 1 m ahead
ObsSide == Obstacle(Some(<<100, 500, 160>>), Some(<<200, 200, 200>>), None)
\* an obstacle whose size list is empty
ObsNoSize == Obstacle(Some(<<300, 500, 0>>), Some(<<>>), None)
\* an 8 m box around (0, 5, 0): no sampled heading is free
ObsHuge == Obstacle(Some(<<0, 500, 0>>), Some(<<800, 800, 800>>), None)
\* an obstacle at rest half a metre from (0, 5, 0); only its position given
ObsTouch == Obstacle(Some(<<50, 500, 0>>), None, None)
\* an obstacle of the default size straight ahead (+x) of the origin
ObsAhead(d) == Obstacle(Some(<<d, 0, 0>>), None, None)

P0 == <<0, 500, 0>>
P1 == <<1000, 500, 0>>
PLow == <<0, 50, 0>>
PHigh == <<0, 10050, 0>>
PMin == <<0, 100, 0>>
\* on the way to Waypoint1, inside its 5 m radius
PNear4 == <<600, 500, 0>>
PNear4b == <<616, 500, 0>>
PNear2 == <<800, 500, 0>>
PSink == <<0, 40, 0>>
Origin == <<0, 0, 0>>
AtRest == <<0, 0, 0>>
Cruise == <<200, 0, 0>>

TargetVisible == [position |-> <<1000, 500, 0>>, velocity |-> <<0, 500, 0>>,
                  is_visible |-> TRUE]
\* a target faster than the drone, coming at it
TargetFast == [position |-> <<1000, 500, 0>>, velocity |-> <<-2000, 0, 0>>,
               is_visible |-> TRUE]
\* the target seen 2 m further along +x
TargetMoved == [position |-> <<1200, 500, 0>>, velocity |-> <<0, 0, 0>>,
                is_visible |-> TRUE]
TargetHidden == [position |-> <<1000, 500, 0>>, velocity |-> <<0, 0, 0>>,
                 is_visible |-> FALSE]

Snapshot(dp, dv, battery, target, obstacles) ==
    [drone |-> [position |-> dp, velocity |-> dv, battery_level |-> battery],
     target |-> target, obstacles |-> obstacles]

ControlCommand(id, mode, target_position, duration_ms) ==
    [command_id |-> id, mode |-> mode, target_position |-> target_position,
     duration_ms |-> duration_ms]

Waypoint1 == Some(<<1000, 500, 0>>)
\* a waypoint on the ground, 10 m ahead
WaypointGround == Some(<<1000, 0, 0>>)

Scenarios == {"modes", "emergency", "lowalt", "approach", "target", "threats",
              "commands", "hover", "degenerate", "sampling"}

Snapshots(sc) ==
    CASE sc = "modes" ->
           { Snapshot(P0, AtRest, 85, TargetVisible, <<>>),
             Snapshot(P0, AtRest, 85, TargetFast, <<>>),
             Snapshot(P0, AtRest, 85, TargetHidden, <<>>) }
      [] sc = "emergency" ->
           { Snapshot(P0, AtRest, 85, TargetHidden, <<>>),
             Snapshot(P0, AtRest, 15, TargetHidden, <<>>),
             Snapshot(P0, AtRest, 10, TargetHidden, <<>>),
             Snapshot(PLow, AtRest, 85, TargetHidden, <<>>),
             Snapshot(PHigh, AtRest, 85, TargetHidden, <<>>) }
      [] sc = "lowalt" ->
           { Snapshot(PMin, AtRest, 85, TargetHidden, <<>>),
             Snapshot(PSink, AtRest, 85, TargetHidden, <<>>) }
      [] sc = "approach" ->
           { Snapshot(pos, AtRest, 85, TargetHidden, <<>>) :
               pos \in {PNear4, PNear4b, PNear2} }
      [] sc = "target" ->
           { Snapshot(P0, AtRest, 85, target, <<>>) :
               target \in {TargetVisible, TargetMoved, TargetHidden} }
      [] sc = "threats" ->
           { Snapshot(P0, Cruise, 85, TargetHidden, obs) :
               obs \in { <<ObsOnPath>>, <<ObsGraze>>, <<ObsNear>>, <<ObsSide>>,
                         <<ObsGrazeFar, ObsGraze>>, <<ObsMoving>> } }
      [] sc = "commands" ->
           { Snapshot(P0, AtRest, 85, TargetHidden, <<>>),
             Snapshot(P1, AtRest, 85, TargetHidden, <<>>) }
      [] sc = "hover" ->
           { Snapshot(P0, AtRest, 85, TargetHidden, <<>>),
             Snapshot(P1, AtRest, 85, TargetHidden, <<>>),
             Snapshot(P1, AtRest, 10, TargetHidden, <<>>) }
      [] sc = "degenerate" ->
           { Snapshot(P0, Cruise, 85, TargetHidden, <<ObsNoSize>>),
             Snapshot(P0, AtRest, 85, TargetHidden, <<ObsTouch>>),
             Snapshot(P0, AtRest, 85, TargetHidden, <<ObsHuge>>) }
      [] sc = "sampling" ->
           { Snapshot(Origin, AtRest, 85, TargetHidden, <<ObsAhead(d)>>) :
               d \in {200, 600, 700, 900} }

Commands(sc) ==
    CASE sc = "modes" ->
           { ControlCommand("h1", "hover", None, 100),
             ControlCommand("w1", "waypoint", Waypoint1, 100),
             ControlCommand("w0", "waypoint", None, 100),
             ControlCommand("i1", "intercept", None, 100),
             ControlCommand("a1", "avoid", None, 100),
             ControlCommand("e1", "emergency", None, 100),
             ControlCommand("m1", "manual", None, 100) }
      [] sc = "emergency" ->
           { ControlCommand("h1", "hover", None, 100),
             ControlCommand("w1", "waypoint", Waypoint1, 100) }
      [] sc = "lowalt" ->
           { ControlCommand("h1", "hover", None, 100),
             ControlCommand("w1", "waypoint", Waypoint1, 100),
             ControlCommand("w2", "waypoint", WaypointGround, 100) }
      [] sc = "approach" ->
           { ControlCommand("w1", "waypoint", Waypoint1, 100),
             ControlCommand("h1", "hover", None, 100) }
      [] sc = "target" ->
           { ControlCommand("i1", "intercept", None, 100),
             ControlCommand("h1", "hover", None, 100) }
      [] sc = "threats" ->
           { ControlCommand("a1", "avoid", None, 100),
             ControlCommand("h1", "hover", None, 100) }
      [] sc = "commands" ->
           \* c1 is sent with two different contents: only the id is compared
           { ControlCommand("c1", "hover", None, 100),
             ControlCommand("c1", "waypoint", Waypoint1, 100),
             ControlCommand("c2", "waypoint", Waypoint1, 0),
             ControlCommand("c3", "hover", None, 100) }
      [] sc = "hover" ->
           { ControlCommand("h1", "hover", None, 100),
             ControlCommand("w1", "waypoint", Waypoint1, 100),
             ControlCommand("h2", "hover", None, 100) }
      [] sc = "degenerate" ->
           { ControlCommand("h1", "hover", None, 100),
             ControlCommand("a1", "avoid", None, 100) }
      [] sc = "sampling" ->
           { ControlCommand("h1", "hover", None, 100) }

-----------------------------------------------------------------------------
\* The state machine.

Init ==
    /\ position_filter = KalmanInit
    /\ target_filter = KalmanInit
    /\ position_history = <<>>
    /\ target_history = <<>>
    /\ velocity_history = <<>>
    /\ current_command = None
    /\ current_mode = "hover"
    /\ command_start_time = 0
    /\ position_controller = position_controller_init
    /\ orientation_controller = orientation_controller_init
    /\ emergency_mode = FALSE
    /\ emergency_reason = ""
    /\ hover_target = None
    /\ control_history = <<>>
    /\ clock = 0
    /\ phase = "perceive"
    /\ ticks = 0
    /\ sim_state = None
    /\ perception = None
    /\ command = None
    /\ drone_cmd = None
    /\ set_point = None
    /\ law_cmd = None
    /\ law_output = None
    /\ kalman_calls = 0
    /\ kalman_fed = {}
    /\ kalman_returned = None
    /\ pid_bench = [calls |-> 0, resets |-> 0, sum |-> Zero3,
                    twin |-> position_controller_init, out |-> None, twin_out |-> None]
    /\ sim_interface = [connected |-> FALSE, running |-> FALSE, latest_state |-> None]
    /\ socket = [recvs |-> 0, parsed |-> {}]
    /\ listener = [pc |-> "not started", data |-> None, drone_state |-> None,
                   target_state |-> None, state |-> None]
    /\ control_loop = [state |-> None]
    /\ raised = ""
    /\ scenario \in Scenarios

\* perception = process_state(s), raising or returning.
ProcessStep(s) ==
    /\ phase = "perceive"
    /\ clock' = clock + 1
    /\ sim_state' = Some(s)
    \* lines 59-63: both filters are updated before anything can raise
    /\ position_filter' = KalmanUpdate(position_filter, s.drone.position)
    /\ target_filter' = update_target_filter(target_filter, s.target)
    /\ IF ProcessRaises(s)
       THEN /\ raised' = "ValueError"
            /\ ticks' = ticks + 1
            /\ UNCHANGED <<position_history, target_history, velocity_history,
                           perception, phase>>
       ELSE /\ raised' = ""
            /\ perception' = Some(process_state(s, clock'))
            \* _update_history
            /\ position_history' = AppendCapped(position_history,
                                                <<clock', s.drone.position>>)
            /\ target_history' = IF s.target.is_visible
                                 THEN AppendCapped(target_history,
                                                   <<clock', s.target.position>>)
                                 ELSE target_history
            /\ velocity_history' = AppendCapped(velocity_history,
                                                <<clock', s.drone.velocity>>)
            /\ phase' = "control"
            /\ UNCHANGED ticks
    /\ UNCHANGED <<control_vars, command, drone_cmd, set_point, law_cmd,
                   law_output, kalman_vars, pid_bench, interface_vars,
                   scenario>>

\* process_state, for as many ticks as the run has
ProcessState(s) == ticks < MaxTicks /\ ProcessStep(s)

\* drone_cmd = execute_command(c, perception)
ExecuteCommand(c) ==
    /\ phase = "control"
    /\ LET p == Get(perception)
           now == clock + 1
           adopt == IsNewCommand(current_command, c)
           mode == IF adopt THEN c.mode ELSE current_mode
           em == check_emergency_conditions(
                     [mode |-> emergency_mode, reason |-> emergency_reason], p)
           r == Dispatch(em.mode, mode, c, p,
                         [pid |-> position_controller, hover_target |-> hover_target],
                         now)
           out == apply_safety_limits(r.cmd, p)
       IN  /\ clock' = now
           /\ current_command' = IF adopt THEN Some(c) ELSE current_command
           /\ command_start_time' = IF adopt THEN now ELSE command_start_time
           /\ current_mode' = mode
           /\ emergency_mode' = em.mode
           /\ emergency_reason' = em.reason
           /\ position_controller' = r.pid
           /\ hover_target' = r.hover_target
           /\ set_point' = Some(r.target_pos)
           /\ law_cmd' = Some(r.cmd)
           /\ law_output' = Some(r.output)
           /\ drone_cmd' = Some(out)
           /\ control_history' =
                  log_control_action(control_history,
                                     LogEntry(now, mode, em.mode, p, out))
    /\ command' = Some(c)
    /\ raised' = ""
    /\ phase' = "perceive"
    /\ ticks' = ticks + 1
    /\ UNCHANGED <<perception_vars, orientation_controller, sim_state, perception,
                   kalman_vars, pid_bench, interface_vars,
                   scenario>>

Next ==
    \/ \E s \in Snapshots(scenario) : ProcessState(s)
    \/ \E c \in Commands(scenario) : ExecuteCommand(c)

Spec == Init /\ [][Next]_vars

-----------------------------------------------------------------------------
\* A SimpleKalmanFilter driven on its own: update(m) is called on
\* position_filter with measurements of the caller's choice.

KalmanCalls == 51
KalmanMeasurements == { <<0, 500, 0>>, <<0, 510, 0>> }

\* kalman_returned = position_filter.update(m)
KalmanFeed(m) ==
    /\ kalman_calls < KalmanCalls
    /\ kalman_calls' = kalman_calls + 1
    /\ kalman_fed' = kalman_fed \cup {m}
    /\ kalman_returned' = Some(KalmanReturn(position_filter, m))
    /\ position_filter' = KalmanUpdate(position_filter, m)
    /\ UNCHANGED <<target_filter, position_history, target_history, velocity_history,
                   control_vars, clock, phase, ticks, sim_state, perception, command,
                   drone_cmd, set_point, law_cmd, law_output, raised, pid_bench,
                   interface_vars,
                   scenario>>

InitKalman == Init /\ scenario = "modes"

NextKalman == \E m \in KalmanMeasurements : KalmanFeed(m)

SpecKalman == InitKalman /\ [][NextKalman]_vars

-----------------------------------------------------------------------------
\* A PIDController3D driven on its own: update(error, dt) and reset() are
\* called on position_controller in any order.  pid_bench keeps the number of
\* calls, the sum of the errors given since construction or the last reset,
\* and a twin: a controller constructed with the same gains at the last
\* reset and given the same updates since.

PIDCalls == 5
PIDErrors == { <<1000, 0, 0>>, <<-300, 200, 0>> }

\* pid_bench.out = position_controller.update(error, dt)
PIDUpdateCall(error) ==
    /\ pid_bench.calls < PIDCalls
    /\ position_controller' = PIDUpdate(position_controller, error)
    /\ pid_bench' = [pid_bench EXCEPT
                         !.calls = @ + 1,
                         !.sum = VAdd(@, error),
                         !.out = Some(PIDOutput(position_controller, error)),
                         !.twin = PIDUpdate(@, error),
                         !.twin_out = Some(PIDOutput(pid_bench.twin, error))]
    /\ UNCHANGED <<perception_vars, current_command, current_mode, command_start_time,
                   orientation_controller, emergency_mode, emergency_reason,
                   hover_target, control_history, clock, phase, ticks, sim_state,
                   perception, command, drone_cmd, set_point, law_cmd, law_output,
                   raised, kalman_vars, interface_vars,
                   scenario>>

\* position_controller.reset(), and a twin constructed anew
PIDResetCall ==
    /\ pid_bench.calls < PIDCalls
    /\ position_controller' = PIDReset(position_controller)
    /\ pid_bench' = [pid_bench EXCEPT
                         !.calls = @ + 1,
                         !.resets = @ + 1,
                         !.sum = Zero3,
                         !.twin = PIDInit(position_controller.kp, position_controller.ki,
                                          position_controller.kd)]
    /\ UNCHANGED <<perception_vars, current_command, current_mode, command_start_time,
                   orientation_controller, emergency_mode, emergency_reason,
                   hover_target, control_history, clock, phase, ticks, sim_state,
                   perception, command, drone_cmd, set_point, law_cmd, law_output,
                   raised, kalman_vars, interface_vars,
                   scenario>>

InitPID == Init /\ scenario = "modes"

NextPID ==
    \/ \E error \in PIDErrors : PIDUpdateCall(error)
    \/ PIDResetCall

SpecPID == InitPID /\ [][NextPID]_vars

-----------------------------------------------------------------------------
\* Vocabulary of the properties.

\* The last call was execute_command and it returned: drone_cmd was computed
\* from command and perception.
Executed == phase = "perceive" /\ raised = "" /\ ~IsNone(drone_cmd)

\* This step is a call of execute_command.
ExecuteStep == phase = "control" /\ phase' = "perceive"

\* The emergency predicates on a perception.
BatteryLow(p) == p.battery_level < 15
CriticalThreat(p) ==
    \E k \in 1..Len(p.immediate_threats) : p.immediate_threats[k].urgency = "critical"
BelowMinAltitude(p) == p.drone_position[2] < min_altitude
AboveMaxAltitude(p) == p.drone_position[2] > max_altitude
AnyEmergencyPredicate(p) ==
    BatteryLow(p) \/ CriticalThreat(p) \/ BelowMinAltitude(p) \/ AboveMaxAltitude(p)

\* The executor is in Emergency: the flag is set and the Emergency law was emitted.
InEmergency ==
    emergency_mode /\ ~IsNone(drone_cmd) /\ "emergency" \in Get(drone_cmd).mode_flags

\* The command given to the last call is the one the executor holds.
CommandIsCurrent == ~IsNone(current_command) /\ Get(command) = Get(current_command)

-----------------------------------------------------------------------------
\* C1: every DroneCommand returned by execute_command has thrust in
\* [0, max_thrust], pitch and roll in [-max_tilt, +max_tilt] (45 degrees in
\* radians) and yaw in [-1, 1], whatever the mode, Emergency and the
\* low-altitude override included.
C1_SafetyLimits ==
    ~IsNone(drone_cmd) =>
        LET d == Get(drone_cmd)
        IN  /\ 0 <= d.thrust /\ d.thrust <= max_thrust
            /\ -max_tilt_rad <= d.pitch /\ d.pitch <= max_tilt_rad
            /\ -max_tilt_rad <= d.roll /\ d.roll <= max_tilt_rad
            /\ -OutScale <= d.yaw /\ d.yaw <= OutScale

\* An Emergency tick below the minimum altitude, where the override forced the
\* thrust to 0.6.
C1_Witness ==
    /\ Executed
    /\ "emergency" \in Get(drone_cmd).mode_flags
    /\ BelowMinAltitude(Get(perception))
    /\ Get(drone_cmd).thrust = forced_climb_thrust

\* C2: emergency latching.  On a call of execute_command where some emergency
\* predicate holds, or where the executor was in Emergency and not all
\* predicates are false, the executor is in Emergency after the call, whatever
\* the command.
C2_EmergencyLatched ==
    [][ ExecuteStep =>
          LET p == Get(perception)
          IN  (AnyEmergencyPredicate(p)
               \/ (emergency_mode /\ ~(~BatteryLow(p) /\ ~CriticalThreat(p)
                                       /\ ~BelowMinAltitude(p) /\ ~AboveMaxAltitude(p))))
              => InEmergency' ]_vars

\* Emergency entered below the minimum altitude, held on the next tick by a
\* low battery alone, and left on the third tick when every predicate is false.
C2_Witness ==
    /\ Executed
    /\ Len(control_history) = 3
    /\ control_history[1].emergency
    /\ control_history[1].state.position[2] < min_altitude
    /\ control_history[1].state.battery >= 15
    /\ control_history[2].emergency
    /\ control_history[2].state.position[2] >= min_altitude
    /\ control_history[2].state.battery < 15
    /\ ~control_history[3].emergency
    /\ ~AnyEmergencyPredicate(Get(perception))

\* C3: when no emergency predicate holds, the law executed is the law of the
\* mode named in the adopted command, for each of hover, waypoint, intercept,
\* avoid and emergency (the command being well formed: a waypoint command has
\* its target, an intercept command a perceived target).
C3_LawOfCommandedMode ==
    (/\ Executed
     /\ CommandIsCurrent
     /\ ~AnyEmergencyPredicate(Get(perception))
     /\ Get(command).mode \in {"hover", "waypoint", "intercept", "avoid", "emergency"}
     /\ Get(command).mode = "waypoint" => ~IsNone(Get(command).target_position)
     /\ Get(command).mode = "intercept" => ~IsNone(Get(perception).target_position))
    => Get(command).mode \in Get(drone_cmd).mode_flags

\* C4: no exception leaves process_state or execute_command.
C4_NoException == raised = ""

\* C5: with no emergency predicate true, a command whose mode is outside the
\* five modes, a waypoint command without target_position and an intercept
\* command without a perceived target each yield the Hover law, and the call
\* returns normally.
C5_MalformedIsHover ==
    (/\ phase = "perceive"
     /\ ~IsNone(drone_cmd)
     /\ CommandIsCurrent
     /\ ~AnyEmergencyPredicate(Get(perception))
     /\ \/ Get(command).mode \notin {"hover", "waypoint", "intercept", "avoid", "emergency"}
        \/ Get(command).mode = "waypoint" /\ IsNone(Get(command).target_position)
        \/ Get(command).mode = "intercept" /\ IsNone(Get(perception).target_position))
    => (raised = "" => Get(drone_cmd).mode_flags = {"hover"})

\* An intercept command executed while the target is not perceived.
C5_Witness ==
    /\ Executed
    /\ CommandIsCurrent
    /\ ~AnyEmergencyPredicate(Get(perception))
    /\ Get(command).mode = "intercept"
    /\ IsNone(Get(perception).target_position)
    /\ Get(drone_cmd).mode_flags = {"hover"}

\* C6: in every PerceptionState the threat list is ascending by
\* time-to-collision, and every reported threat has a time-to-collision in
\* [0, lookahead).
C6_ThreatsSorted ==
    ~IsNone(perception) =>
        LET th == Get(perception).immediate_threats
        IN  /\ \A i, j \in 1..Len(th) :
                   i < j => th[i].time_to_collision <= th[j].time_to_collision
            /\ \A i \in 1..Len(th) :
                   /\ 0 <= th[i].time_to_collision
                   /\ th[i].time_to_collision < collision_lookahead_time

\* Two threats reported in the reverse of the order the snapshot lists them.
C6_Witness ==
    /\ ~IsNone(perception)
    /\ LET p == Get(perception)
       IN  /\ Len(p.obstacles) = 2
           /\ Len(p.immediate_threats) = 2
           /\ p.immediate_threats[1].obstacle = p.obstacles[2]
           /\ p.immediate_threats[2].obstacle = p.obstacles[1]
           /\ p.immediate_threats[1].time_to_collision
                  < p.immediate_threats[2].time_to_collision

\* C7: an obstacle with non-zero relative velocity is in the threat list if
\* and only if its closest-approach distance is below max(size) +
\* min_safe_distance and its time of closest approach is below the lookahead.
C7_ThreatIffCloseAndSoon ==
    ~IsNone(perception) =>
        LET p == Get(perception)
        IN  \A k \in 1..Len(p.obstacles) :
                LET o == p.obstacles[k]
                    rel_pos == VSub(ObsPosition(o), p.drone_position)
                    rel_vel == VSub(ObsVelocity(o), p.drone_velocity)
                    ca == ClosestApproach(rel_pos, rel_vel)
                    reported == \E j \in 1..Len(p.immediate_threats) :
                                    p.immediate_threats[j].obstacle = o
                IN  ~NearZero(rel_vel) =>
                        (reported <=>
                            /\ ca.d < SeqMax(ObsSize(o)) + min_safe_distance
                            /\ ca.t < collision_lookahead_time)

\* The sampled headings that point along +x, and those nearest to 180 degrees
\* from it (168 and 192 degrees of azimuth, level).
HeadingsAhead == { <<0, 0>>, <<TwoPi, 0>> }
HeadingsBehind == { <<2932, 0>>, <<3351, 0>> }
Elements(seq) == { seq[i] : i \in 1..Len(seq) }

\* The drone is at the origin and the snapshot has one obstacle, straight
\* ahead (+x) within the check distance.
OneObstacleAhead(p) ==
    /\ p.drone_position = Origin
    /\ Len(p.obstacles) = 1
    /\ ObsPosition(p.obstacles[1])[1] > 0
    /\ ObsPosition(p.obstacles[1])[1] <= check_distance
    /\ ObsPosition(p.obstacles[1])[2] = 0
    /\ ObsPosition(p.obstacles[1])[3] = 0

\* C8 as stated: with the drone at the origin and a single obstacle directly
\* ahead within the check distance, the headings pointing at it are not in the
\* safe set and the headings 180 degrees away are.
C8_AheadExcluded ==
    (~IsNone(perception) /\ OneObstacleAhead(Get(perception))) =>
        /\ HeadingsAhead \cap Elements(Get(perception).safe_directions) = {}
        /\ HeadingsBehind \subseteq Elements(Get(perception).safe_directions)

\* C8 amended: the headings pointing at the obstacle are excluded exactly when
\* the point check_distance along them is nearer to the obstacle than
\* max(size) + min_safe_distance, that is when check_distance - d <
\* max(size) + min_safe_distance; the headings nearest 180 degrees away are
\* included when max(size) + min_safe_distance <= check_distance.
C8_AheadExcludedWhenFar ==
    (~IsNone(perception) /\ OneObstacleAhead(Get(perception))) =>
        LET p == Get(perception)
            d == ObsPosition(p.obstacles[1])[1]
            reach == SeqMax(ObsSize(p.obstacles[1])) + min_safe_distance
            safe == Elements(p.safe_directions)
        IN  /\ (check_distance - d < reach) => HeadingsAhead \cap safe = {}
            /\ (check_distance - d >= reach) => HeadingsAhead \subseteq safe
            /\ reach <= check_distance => HeadingsBehind \subseteq safe

\* The obstacle is 9 m ahead: the headings at it are excluded, those behind kept.
C8_Witness ==
    /\ ~IsNone(perception)
    /\ OneObstacleAhead(Get(perception))
    /\ ObsPosition(Get(perception).obstacles[1])[1] = 900
    /\ HeadingsAhead \cap Elements(Get(perception).safe_directions) = {}
    /\ HeadingsBehind \subseteq Elements(Get(perception).safe_directions)

\* C9: execute_command replaces the current command exactly when the id of the
\* command given differs from the stored id or nothing is stored; then
\* current_command, current_mode and command_start_time are set.  Otherwise the
\* three are left as they are, whatever duration_ms and the time elapsed.  The
\* position PID is never reset: its integral grows by the error of the tick.
C9_ReplacedByIdOnly ==
    [][ ExecuteStep =>
          LET c == Get(command')
              new == IsNone(current_command)
                     \/ c.command_id # Get(current_command).command_id
          IN  /\ new => /\ current_command' = Some(c)
                        /\ current_mode' = c.mode
                        /\ command_start_time' = clock'
              /\ ~new => UNCHANGED <<current_command, current_mode,
                                     command_start_time>>
              /\ position_controller'.integral =
                     VAdd(position_controller.integral,
                          position_controller'.prev_error) ]_vars

\* A command adopted on the second tick is sent again on the third with the
\* same id and another content: it is not adopted, and the integral built up
\* before is still there.
C9_Witness ==
    /\ Executed
    /\ Len(control_history) = 3
    /\ command_start_time = control_history[2].timestamp
    /\ Get(command).command_id = Get(current_command).command_id
    /\ Get(command) # Get(current_command)
    /\ current_mode = Get(current_command).mode
    /\ current_mode # Get(command).mode
    /\ position_controller.integral # Zero3

\* C10: each time the Hover law starts to run (initially, after another law or
\* after Emergency) its set-point is the filtered drone position of that tick,
\* and while it keeps running the set-point does not change.
C10_HoverSetPointCaptured ==
    [][ (ExecuteStep /\ "hover" \in Get(drone_cmd').mode_flags) =>
          IF ~IsNone(drone_cmd) /\ "hover" \in Get(drone_cmd).mode_flags
          THEN set_point' = set_point
          ELSE set_point' = Some(Get(perception).drone_position) ]_vars

\* C11: whenever the law executed on a tick differs from the law executed on
\* the tick before (entering or leaving Emergency included), the position PID
\* is reset before its first update: after that update its integral holds the
\* error of this tick alone.
C11_ResetOnModeEntry ==
    [][ (/\ ExecuteStep
         /\ ~IsNone(drone_cmd)
         /\ Get(drone_cmd').mode_flags # Get(drone_cmd).mode_flags)
        => position_controller' =
               PIDUpdate(PIDReset(position_controller),
                         position_controller'.prev_error) ]_vars

\* C12: when the altitude is below min_altitude and the thrust of the law,
\* clamped to [0, max_thrust], is below 0.6, the emitted thrust is 0.6 and the
\* emitted pitch is not negative; when the altitude is at or above
\* min_altitude the emitted command is the law's command with each channel
\* clamped and nothing else.
C12_LowAltitudeOverride ==
    Executed =>
        LET raw == Get(law_cmd)
            out == Get(drone_cmd)
            altitude == Get(perception).drone_position[2]
            clamped == [raw EXCEPT
                           !.thrust = clip(raw.thrust, 0, max_thrust),
                           !.pitch = clip(raw.pitch, -max_tilt_rad, max_tilt_rad),
                           !.roll = clip(raw.roll, -max_tilt_rad, max_tilt_rad),
                           !.yaw = clip(raw.yaw, -OutScale, OutScale)]
        IN  /\ (altitude < min_altitude /\ clamped.thrust < forced_climb_thrust)
               => (out.thrust = forced_climb_thrust /\ out.pitch >= 0)
            /\ altitude >= min_altitude => out = clamped

\* Below the minimum altitude the law asked for thrust 0.3 and nose down, and
\* thrust 0.6 with level pitch was emitted.
C12_Witness ==
    /\ Executed
    /\ Get(perception).drone_position[2] < min_altitude
    /\ Get(law_cmd).thrust < forced_climb_thrust
    /\ Get(law_cmd).pitch < 0
    /\ Get(drone_cmd).thrust = forced_climb_thrust
    /\ Get(drone_cmd).pitch = 0

C14_AvoidThrustFloor ==
    (Executed /\ "avoid" \in Get(drone_cmd).mode_flags) =>
        /\ 10 * Get(drone_cmd).thrust >= 3 * OutScale
        /\ Get(drone_cmd).thrust <= max_thrust

\* An Avoid tick with a threat whose set-point lies below the drone: the
\* thrust is held at the floor.
C14_Witness ==
    /\ Executed
    /\ "avoid" \in Get(drone_cmd).mode_flags
    /\ Get(perception).immediate_threats # <<>>
    /\ Get(set_point)[2] < Get(perception).drone_position[2]
    /\ 10 * Get(drone_cmd).thrust = 3 * OutScale

\* The squared angular distance between the heading d and the direction of
\* the vector v, the azimuth difference taken around the circle.
WrappedDistance2(d, v) ==
    LET az == arctan2(v[3], v[1])
        el == arctan2(v[2], ISqrt(v[1] * v[1] + v[3] * v[3]))
        diff == Abs(d[1] - az) % TwoPi
        around == IF diff > TwoPi - diff THEN TwoPi - diff ELSE diff
    IN  around * around + (d[2] - el) * (d[2] - el)

\* C15: in Avoid, when the safe headings are not empty the set-point is 5
\* units along a safe heading of least angular distance (azimuth wrapped) to
\* the threat-weighted avoidance vector; when they are empty it is the
\* current position plus 5 units up plus the avoidance vector.
C15_AvoidHeading ==
    (Executed /\ "avoid" \in Get(drone_cmd).mode_flags) =>
        LET p == Get(perception)
            v == AvoidanceVector(p.immediate_threats)
            safe == Elements(p.safe_directions)
        IN  IF safe # {}
            THEN \E d \in safe :
                     /\ set_point = Some(VAdd(p.drone_position, DirVector(d, 500)))
                     /\ \A e \in safe : WrappedDistance2(d, v) <= WrappedDistance2(e, v)
            ELSE set_point = Some(VAdd(VAdd(p.drone_position, <<0, 500, 0>>), v))

\* An Avoid tick whose avoidance vector has a negative azimuth, so that the
\* nearest safe heading is found around the circle, beyond pi.
C15_Witness ==
    /\ Executed
    /\ "avoid" \in Get(drone_cmd).mode_flags
    /\ Get(perception).immediate_threats # <<>>
    /\ Get(perception).safe_directions # <<>>
    /\ LET v == AvoidanceVector(Get(perception).immediate_threats)
       IN  /\ arctan2(v[3], v[1]) < 0
           /\ \E d \in Elements(Get(perception).safe_directions) :
                  /\ d[1] > Pi
                  /\ set_point = Some(VAdd(Get(perception).drone_position,
                                           DirVector(d, 500)))

\* The end-to-end scenario: the first tick, the drone at (0, 5, 0) with
\* battery 85 and no obstacle, and a waypoint command to (10, 5, 0).
WaypointScenario ==
    /\ Executed
    /\ Len(control_history) = 1
    /\ Get(perception).drone_position = <<0, 500, 0>>
    /\ Get(perception).battery_level = 85
    /\ Get(perception).immediate_threats = <<>>
    /\ Get(command).mode = "waypoint"
    /\ Get(command).target_position = Some(<<1000, 500, 0>>)

\* C16 as stated: in the scenario the first command has thrust above the
\* hover baseline 0.5, pitch or roll not zero and toward +x, and the flags
\* report waypoint.
C16_WaypointThrustRises ==
    WaypointScenario =>
        /\ Get(drone_cmd).thrust > hover_thrust
        /\ Get(drone_cmd).pitch >= 0
        /\ (Get(drone_cmd).pitch # 0 \/ Get(drone_cmd).roll # 0)
        /\ Get(drone_cmd).mode_flags = {"waypoint"}

\* C16 amended: in the scenario the first command has thrust equal to the
\* hover baseline 0.5 (the target is at the drone's altitude), pitch at its
\* positive limit 0.7 toward +x, roll and yaw zero, and the flags report
\* waypoint.
C16_WaypointFirstCommand ==
    WaypointScenario =>
        /\ Get(drone_cmd).thrust = hover_thrust
        /\ 10 * Get(drone_cmd).pitch = 7 * OutScale
        /\ Get(drone_cmd).roll = 0
        /\ Get(drone_cmd).yaw = 0
        /\ Get(drone_cmd).mode_flags = {"waypoint"}

\* The scenario has run.
C16_Witness ==
    /\ WaypointScenario
    /\ Get(drone_cmd).mode_flags = {"waypoint"}
    /\ Get(set_point) = <<1000, 500, 0>>
    /\ Get(law_output)[1] > 0

\* The magnitude of a control output, in units of 0.05.
Magnitude(out) == Norm(<<out[1] \div 10000, out[2] \div 10000, out[3] \div 10000>>)

\* C17: over consecutive Waypoint ticks to the same target, when the distance
\* to the target is below 5 on both and smaller on the second, the magnitude
\* of the control output is not larger on the second.
C17_OutputShrinksWithDistance ==
    [][ (/\ ExecuteStep
         /\ ~IsNone(drone_cmd)
         /\ Get(drone_cmd).mode_flags = {"waypoint"}
         /\ Get(drone_cmd').mode_flags = {"waypoint"}
         /\ set_point' = set_point
         /\ Norm(position_controller.prev_error) < 500
         /\ NormLess(position_controller'.prev_error,
                     Norm(position_controller.prev_error)))
        => Magnitude(Get(law_output')) <= Magnitude(Get(law_output)) ]_vars

\* The roots of a t^2 + b t + c = 0 for the intercept of a target at
\* relative position dp with velocity v by a drone of speed 10 m/s, in ms
\* (coefficients in units of 1000 cm^2, as calculate_intercept_time has them).
InterceptRoots(dp, v) ==
    LET a == RDiv(Dot(v, v) - drone_speed * drone_speed, 1000)
        b == RDiv(2 * Dot(dp, v), 1000)
        c == RDiv(Dot(dp, dp), 1000)
        d == b * b - 4 * a * c
    IN  IF a = 0 \/ d < 0 THEN {}
        ELSE { RDiv(TimeScale * (-b + ISqrt(d)) * (IF a < 0 THEN -1 ELSE 1), 2 * Abs(a)),
               RDiv(TimeScale * (-b - ISqrt(d)) * (IF a < 0 THEN -1 ELSE 1), 2 * Abs(a)) }

\* The intercept time as specified: the smaller positive root if there is a
\* positive root, |dp| / speed otherwise.
SmallerPositiveRoot(dp, v) ==
    LET positive == { t \in InterceptRoots(dp, v) : t > 0 }
    IN  IF positive # {}
        THEN CHOOSE t \in positive : \A u \in positive : t <= u
        ELSE MulDiv(TimeScale, Norm(dp), drone_speed)

\* C18: on an Intercept tick with a perceived target the aim point is the
\* target position plus its velocity times the intercept time, the smaller
\* positive root of a t^2 + b t + c = 0 when a positive real root exists and
\* |dp| / speed otherwise.
C18_SmallerPositiveRoot ==
    (Executed /\ "intercept" \in Get(drone_cmd).mode_flags) =>
        LET p == Get(perception)
            v == Get(p.target_velocity)
            t == SmallerPositiveRoot(VSub(Get(p.target_position), p.drone_position), v)
        IN  set_point = Some(<<Get(p.target_position)[1] + RDiv(v[1] * t, TimeScale),
                               Get(p.target_position)[2] + RDiv(v[2] * t, TimeScale),
                               Get(p.target_position)[3] + RDiv(v[3] * t, TimeScale)>>)

\* This step is a call of process_state, which updates position_filter with
\* the drone position of the snapshot.
PerceiveStep == phase = "perceive" /\ clock' = clock + 1

\* The filter after an update with measurement m when the gain is g_num / g_den
\* and the predicted error is pred.
KalmanStep(f, m, g_num, g_den, pred) ==
    LET e == Get(f.estimate)
    IN  [estimate |-> Some(<<e[1] + RDiv(g_num * (m[1] - e[1]), g_den),
                             e[2] + RDiv(g_num * (m[2] - e[2]), g_den),
                             e[3] + RDiv(g_num * (m[3] - e[3]), g_den)>>),
         estimate_error |-> pred - RDiv(g_num * pred, g_den)]

\* C19 as stated: after the first call an update computes gain = prior_error /
\* (prior_error + measurement_noise), estimate += gain * (measurement -
\* estimate) and error = (1 - gain) * (prior_error + process_noise).
C19_GainFromPriorError ==
    [][ (PerceiveStep /\ ~IsNone(position_filter.estimate)) =>
          LET prior == position_filter.estimate_error
          IN  position_filter' =
                  KalmanStep(position_filter, Get(sim_state').drone.position,
                             prior, prior + measurement_noise,
                             prior + process_noise) ]_vars

\* C19 amended: after the first call an update computes predicted =
\* prior_error + process_noise, gain = predicted / (predicted +
\* measurement_noise), estimate += gain * (measurement - estimate) and
\* error = (1 - gain) * predicted.
C19_GainFromPredictedError ==
    [][ (PerceiveStep /\ ~IsNone(position_filter.estimate)) =>
          LET predicted == position_filter.estimate_error + process_noise
          IN  position_filter' =
                  KalmanStep(position_filter, Get(sim_state').drone.position,
                             predicted, predicted + measurement_noise,
                             predicted) ]_vars

\* The filter has made a second update with a measurement away from its
\* estimate: the estimate lies between the two and the error has shrunk.
C19_Witness ==
    /\ ~IsNone(position_filter.estimate)
    /\ position_filter.estimate_error < initial_estimate_error
    /\ Get(position_filter.estimate) # Get(sim_state).drone.position
    /\ Get(position_filter.estimate)[2] = 191
    /\ Get(sim_state).drone.position[2] = 50

\* v is within 1e-3 (a tenth of a centimetre) of m on every axis.
WithinMillimetre(v, m) == \A i \in 1..3 : 10 * (v[i] - m[i]) <= 1 /\ 10 * (m[i] - v[i]) <= 1

\* C20: the first update of a filter returns the measurement and seeds the
\* estimate with it; while every update so far was given the same measurement
\* m, what is returned and the estimate stay within 1e-3 of m, up to and
\* beyond 50 updates, and the error value stays strictly positive.
C20_KalmanConverges ==
    /\ kalman_calls = 1 =>
           /\ kalman_fed = {Get(kalman_returned)}
           /\ position_filter.estimate = kalman_returned
    /\ \A m \in KalmanMeasurements :
           (kalman_calls >= 1 /\ kalman_fed = {m}) =>
               /\ WithinMillimetre(Get(kalman_returned), m)
               /\ WithinMillimetre(Get(position_filter.estimate), m)
    /\ position_filter.estimate_error > 0

\* The filter after its first update and 50 more with the same measurement.
C20_Witness ==
    /\ kalman_calls = 51
    /\ kalman_fed = {<<0, 510, 0>>}
    /\ kalman_returned = Some(<<0, 510, 0>>)
    /\ position_filter.estimate_error < initial_estimate_error

\* C21: the integral of a PID controller is the sum of error * dt over the
\* updates since construction or the last reset, without clamping; reset()
\* zeroes integral and previous error and leaves the gains; after a reset the
\* controller returns the outputs of a freshly constructed controller with
\* the same gains given the same updates.
C21_IntegralAndReset ==
    /\ position_controller.integral = pid_bench.sum
    /\ position_controller.kp = position_controller_init.kp
    /\ position_controller.ki = position_controller_init.ki
    /\ position_controller.kd = position_controller_init.kd
    /\ pid_bench.resets > 0 =>
           /\ position_controller = pid_bench.twin
           /\ pid_bench.out = pid_bench.twin_out

\* A controller that was updated, reset, and updated twice with the same
\* error: its integral is twice that error and its output that of the twin.
C21_Witness ==
    /\ pid_bench.calls = 5
    /\ pid_bench.resets = 1
    /\ position_controller.integral = <<2000, 0, 0>>
    /\ position_controller.prev_error = <<1000, 0, 0>>
    /\ ~IsNone(pid_bench.out)
    /\ pid_bench.out = pid_bench.twin_out

\* The last call of process_state returned, so perception was computed from
\* sim_state.
Perceived == ~IsNone(perception) /\ raised = ""

\* C22: in every PerceptionState, target_position and target_velocity are
\* absent exactly when the snapshot's target is not visible; then
\* target_distance is infinite and target_bearing is (0, 0), and the call
\* returns normally.
C22_InvisibleTarget ==
    /\ Perceived =>
           LET p == Get(perception)
               visible == Get(sim_state).target.is_visible
           IN  /\ IsNone(p.target_position) <=> ~visible
               /\ IsNone(p.target_velocity) <=> ~visible
               /\ ~visible => (p.target_distance = Inf /\ p.target_bearing = <<0, 0>>)
               /\ visible => p.target_distance < Inf
    /\ (/\ ~IsNone(sim_state)
        /\ ~Get(sim_state).target.is_visible
        /\ Get(sim_state).obstacles = <<>>) => raised = ""

\* A PerceptionState of a snapshot whose target is hidden, after one that
\* showed it.
C22_Witness ==
    /\ Perceived
    /\ target_history # <<>>
    /\ ~Get(sim_state).target.is_visible
    /\ IsNone(Get(perception).target_position)
    /\ IsNone(Get(perception).target_velocity)
    /\ Get(perception).target_distance = Inf

\* The obstacles of perception p that do not move relative to the drone.
StillObstacles(p) ==
    { k \in 1..Len(p.obstacles) :
        NearZero(VSub(ObsVelocity(p.obstacles[k]), p.drone_velocity)) }

\* C23: an obstacle whose speed relative to the drone is (nearly) zero has an
\* infinite time to collision and a closest distance equal to its current
\* distance, is never among the immediate threats, and so never triggers
\* Emergency, however close it is.
C23_StillObstacleNoThreat ==
    Perceived =>
        LET p == Get(perception)
            infos == ThreatInfos(p.drone_position, p.drone_velocity, p.obstacles)
        IN  /\ \A k \in StillObstacles(p) :
                  /\ infos[k].time_to_collision = Inf
                  /\ infos[k].closest_distance =
                         Norm(VSub(ObsPosition(p.obstacles[k]), p.drone_position))
                  /\ \A j \in 1..Len(p.immediate_threats) :
                         p.immediate_threats[j].obstacle # p.obstacles[k]
            /\ (Executed /\ StillObstacles(p) = 1..Len(p.obstacles)
                  /\ ~BatteryLow(p) /\ ~BelowMinAltitude(p) /\ ~AboveMaxAltitude(p))
               => ~emergency_mode

\* A static obstacle half a metre from the hovering drone, closer than the
\* critical distance, and no Emergency.
C23_Witness ==
    /\ Executed
    /\ Perceived
    /\ Get(perception).obstacles = <<ObsTouch>>
    /\ StillObstacles(Get(perception)) = {1}
    /\ Norm(VSub(ObsPosition(ObsTouch), Get(perception).drone_position))
           < critical_distance
    /\ Get(perception).immediate_threats = <<>>
    /\ ~emergency_mode

-----------------------------------------------------------------------------
\* SimInterface shared by two threads: the listener thread of start_listening
\* runs _listen_loop and is the only one that assigns latest_state; the
\* control loop reads it with get_latest_state.  Every step of the listener is
\* one action, so the reader can run between any two of them.

MaxRecvs == 3

DictGet(entry, default) == IF IsNone(entry) THEN default ELSE Get(entry)

\* A state dictionary as decoded from the wire; an absent key is None.
StateDict(drone, target, obstacles) ==
    [drone |-> drone, target |-> target, obstacles |-> obstacles]
DroneData(position, battery) ==
    [position |-> position, velocity |-> None, orientation |-> None,
     battery |-> battery, armed |-> None]
TargetData(position, visible) ==
    [position |-> position, velocity |-> None, visible |-> visible]
EmptyDroneData == DroneData(None, None)
EmptyTargetData == TargetData(None, None)

\* The dictionaries the simulation sends: two full ones that differ in every
\* part, and one without any key.
StateDicts ==
    { StateDict(Some(DroneData(Some(<<100, 500, 0>>), Some(85))),
                Some(TargetData(Some(<<1000, 500, 0>>), Some(TRUE))), Some(<<>>)),
      StateDict(Some(DroneData(Some(<<200, 600, 0>>), Some(84))),
                Some(TargetData(Some(<<1100, 500, 0>>), Some(FALSE))),
                Some(<<ObsNear>>)),
      StateDict(None, None, None) }

\* drone_state = DroneState(...) of _parse_state
ParseDroneState(state_dict) ==
    LET drone_data == DictGet(state_dict.drone, EmptyDroneData)
    IN  [position |-> DictGet(drone_data.position, Zero3),
         velocity |-> DictGet(drone_data.velocity, Zero3),
         orientation |-> DictGet(drone_data.orientation, Zero3),
         battery_level |-> DictGet(drone_data.battery, 100),
         is_armed |-> DictGet(drone_data.armed, FALSE)]

\* target_state = TargetState(...) of _parse_state
ParseTargetState(state_dict) ==
    LET target_data == DictGet(state_dict.target, EmptyTargetData)
    IN  [position |-> DictGet(target_data.position, Zero3),
         velocity |-> DictGet(target_data.velocity, Zero3),
         is_visible |-> DictGet(target_data.visible, TRUE)]

\* SimulationState(drone, target, obstacles, timestamp)
SimulationState(drone_state, target_state, state_dict, now) ==
    [drone |-> drone_state, target |-> target_state,
     obstacles |-> DictGet(state_dict.obstacles, <<>>), timestamp |-> now]

\* _parse_state(state_dict) at time now
parse_state(state_dict, now) ==
    SimulationState(ParseDroneState(state_dict), ParseTargetState(state_dict),
                    state_dict, now)

\* A listener that copies the parts of the new state into the published one.
listen_loop_assign_in_place(latest_state, state) ==
    IF IsNone(state) THEN latest_state
    ELSE IF IsNone(latest_state) THEN state
    ELSE Some([Get(latest_state) EXCEPT !.drone = Get(state).drone,
                                        !.timestamp = Get(state).timestamp])

\* `if state: self.latest_state = state`: the value of latest_state afterwards
listen_loop_assign(latest_state, state) ==
    IF IsNone(state) THEN latest_state ELSE state

\* connect() succeeds
Connect ==
    /\ ~sim_interface.connected
    /\ sim_interface' = [sim_interface EXCEPT !.connected = TRUE]
    /\ UNCHANGED <<socket, listener, control_loop>>

\* disconnect()
Disconnect ==
    /\ sim_interface.connected
    /\ sim_interface' = [sim_interface EXCEPT !.connected = FALSE]
    /\ UNCHANGED <<socket, listener, control_loop>>

\* start_listening(): the listener thread is started
StartListening ==
    /\ listener.pc = "not started"
    /\ sim_interface' = [sim_interface EXCEPT !.running = TRUE]
    /\ listener' = [listener EXCEPT !.pc = "while"]
    /\ UNCHANGED <<socket, control_loop>>

\* stop_listening()
StopListening ==
    /\ sim_interface.running
    /\ sim_interface' = [sim_interface EXCEPT !.running = FALSE]
    /\ UNCHANGED <<socket, listener, control_loop>>

\* while self.running and self.connected
ListenWhile ==
    /\ listener.pc = "while"
    /\ listener' = [listener EXCEPT
                        !.pc = IF sim_interface.running /\ sim_interface.connected
                               THEN "receive" ELSE "finished"]
    /\ UNCHANGED <<sim_interface, socket, control_loop>>

\* receive_state() up to json.loads: not connected, no data or an exception
\* give None; otherwise a dictionary is decoded.
ListenReceive ==
    /\ listener.pc = "receive"
    /\ socket.recvs < MaxRecvs
    /\ socket' = [socket EXCEPT !.recvs = @ + 1]
    /\ \/ listener' = [listener EXCEPT !.pc = "assign", !.state = None]
       \/ /\ sim_interface.connected
          /\ \E state_dict \in StateDicts :
                 listener' = [listener EXCEPT !.pc = "parse drone",
                                              !.data = Some(state_dict)]
    /\ UNCHANGED <<sim_interface, control_loop>>

\* _parse_state: drone_state = DroneState(...)
ListenParseDrone ==
    /\ listener.pc = "parse drone"
    /\ listener' = [listener EXCEPT
                        !.pc = "parse target",
                        !.drone_state = Some(ParseDroneState(Get(listener.data)))]
    /\ UNCHANGED <<sim_interface, socket, control_loop>>

\* _parse_state: target_state = TargetState(...)
ListenParseTarget ==
    /\ listener.pc = "parse target"
    /\ listener' = [listener EXCEPT
                        !.pc = "return",
                        !.target_state = Some(ParseTargetState(Get(listener.data)))]
    /\ UNCHANGED <<sim_interface, socket, control_loop>>

\* _parse_state: return SimulationState(...); state = self.receive_state()
ListenReturn ==
    /\ listener.pc = "return"
    /\ LET state == SimulationState(Get(listener.drone_state),
                                    Get(listener.target_state),
                                    Get(listener.data), socket.recvs)
       IN  /\ listener' = [listener EXCEPT !.pc = "assign", !.state = Some(state)]
           /\ socket' = [socket EXCEPT !.parsed = @ \cup {state}]
    /\ UNCHANGED <<sim_interface, control_loop>>

\* if state: self.latest_state = state
ListenAssign ==
    /\ listener.pc = "assign"
    /\ sim_interface' =
           [sim_interface EXCEPT
                !.latest_state = listen_loop_assign(@, listener.state)]
    /\ listener' = [listener EXCEPT !.pc = "sleep"]
    /\ UNCHANGED <<socket, control_loop>>

\* time.sleep(0.005)
ListenSleep ==
    /\ listener.pc = "sleep"
    /\ listener' = [listener EXCEPT !.pc = "while"]
    /\ UNCHANGED <<sim_interface, socket, control_loop>>

\* control_loop.state = get_latest_state()
GetLatestState ==
    /\ control_loop' = [control_loop EXCEPT !.state = sim_interface.latest_state]
    /\ UNCHANGED <<sim_interface, socket, listener>>

InitHandoff == Init /\ scenario = "modes"

NextHandoff ==
    /\ \/ Connect
       \/ Disconnect
       \/ StartListening
       \/ StopListening
       \/ ListenWhile
       \/ ListenReceive
       \/ ListenParseDrone
       \/ ListenParseTarget
       \/ ListenReturn
       \/ ListenAssign
       \/ ListenSleep
       \/ GetLatestState
    /\ UNCHANGED <<perception_vars, control_vars, kalman_vars, pid_bench, clock,
                   phase, ticks, sim_state, perception, command, drone_cmd,
                   set_point, law_cmd, law_output, raised, scenario>>

SpecHandoff == InitHandoff /\ [][NextHandoff]_vars

\* The snapshots a reader may see: None or one parsed from a single receive.
WholeSnapshots ==
    {None} \cup { Some(state) : state \in socket.parsed
                                       \cap { parse_state(state_dict, now) :
                                                state_dict \in StateDicts,
                                                now \in 1..socket.recvs } }

\* C24: only the listener's assignment changes latest_state; a reader of
\* get_latest_state sees None or one completely parsed SimulationState of a
\* single receive, never parts of two; and once a state has been published
\* latest_state never becomes None again.
C24_Handoff ==
    /\ [](/\ sim_interface.latest_state \in WholeSnapshots
          /\ control_loop.state \in WholeSnapshots)
    /\ [][/\ sim_interface'.latest_state # sim_interface.latest_state
               => (listener.pc = "assign" /\ listener'.pc = "sleep")
          /\ ~IsNone(sim_interface.latest_state)
               => ~IsNone(sim_interface'.latest_state)]_vars

\* The reader holds the first snapshot while the listener has published the
\* second one and then had a failed receive.
C24_Witness ==
    /\ socket.recvs = 3
    /\ Cardinality(socket.parsed) = 2
    /\ listener.pc = "sleep"
    /\ IsNone(listener.state)
    /\ ~IsNone(control_loop.state)
    /\ ~IsNone(sim_interface.latest_state)
    /\ Get(control_loop.state).timestamp = 1
    /\ Get(sim_interface.latest_state).timestamp = 2
    /\ Get(control_loop.state).drone # Get(sim_interface.latest_state).drone

-----------------------------------------------------------------------------
\* C25: after every call of execute_command, emergency_mode is true exactly
\* when some emergency predicate (battery_level < 15, a critical threat,
\* altitude < min_altitude, altitude > max_altitude) holds for the perception
\* of that call; the flag has no memory: on the tick where every predicate is
\* false it is cleared and the command of that tick is not the Emergency law.
C25_EmergencyIffPredicate ==
    /\ [](Executed =>
            /\ emergency_mode <=> AnyEmergencyPredicate(Get(perception))
            /\ emergency_mode <=> "emergency" \in Get(drone_cmd).mode_flags
            /\ control_history[Len(control_history)].emergency = emergency_mode)
    /\ [][(ExecuteStep /\ emergency_mode /\ ~AnyEmergencyPredicate(Get(perception)))
             => (/\ ~emergency_mode'
                 /\ "emergency" \notin Get(drone_cmd').mode_flags
                 /\ \/ current_mode' \in Get(drone_cmd').mode_flags
                    \/ "hover" \in Get(drone_cmd').mode_flags)]_vars

\* A waypoint command flown in Emergency because of a low battery, and by the
\* Waypoint law on the next tick, where the battery reading is back at 85.
C25_Witness ==
    /\ Executed
    /\ Len(control_history) >= 2
    /\ control_history[Len(control_history) - 1].emergency
    /\ control_history[Len(control_history) - 1].state.battery < 15
    /\ ~emergency_mode
    /\ Get(perception).battery_level = 85
    /\ "waypoint" \in Get(drone_cmd).mode_flags

\* The emergency predicate named by reason holds for perception p.
ReasonHolds(reason, p) ==
    \/ reason = "Low battery" /\ BatteryLow(p)
    \/ reason = "Below minimum altitude" /\ BelowMinAltitude(p)
    \/ reason = "Above maximum altitude" /\ AboveMaxAltitude(p)
    \/ /\ reason \notin {"", "Low battery", "Below minimum altitude",
                         "Above maximum altitude"}
       /\ CriticalThreat(p)

\* C26: emergency_reason is empty exactly when emergency_mode is false, and
\* while emergency_mode is true it names an emergency predicate that holds on
\* the current tick.
C26_ReasonIsCurrent ==
    Executed =>
        /\ emergency_reason = "" <=> ~emergency_mode
        /\ emergency_mode => ReasonHolds(emergency_reason, Get(perception))

\* C27: on every tick where the altitude is below min_altitude the emitted
\* command has thrust of at least 0.6 and a pitch that is not negative,
\* whatever the law computed and whatever state the PID carried over.
C27_NoNoseDownBelowMinAltitude ==
    (Executed /\ BelowMinAltitude(Get(perception))) =>
        /\ Get(drone_cmd).thrust >= forced_climb_thrust
        /\ Get(drone_cmd).pitch >= 0

\* C28: every call of execute_command updates the position PID exactly once,
\* whatever law runs (Emergency, Hover, Waypoint, Intercept, Avoid or a hover
\* fallback): the integral grows by the error of this call, which becomes the
\* previous error; in Emergency the error is the one of the descent set-point.
\* The orientation PID is never touched: its integral and previous error stay
\* zero.
C28_OnePositionUpdatePerCall ==
    /\ [][ExecuteStep =>
            LET error == position_controller'.prev_error
            IN  /\ position_controller'.integral
                       = VAdd(position_controller.integral, error)
                /\ position_controller'.kp = position_controller.kp
                /\ position_controller'.ki = position_controller.ki
                /\ position_controller'.kd = position_controller.kd
                /\ emergency_mode' =>
                       error = VSub(Get(set_point'), Get(perception).drone_position)
                /\ orientation_controller' = orientation_controller]_vars
    /\ [](/\ orientation_controller = orientation_controller_init
          /\ orientation_controller.integral = Zero3
          /\ orientation_controller.prev_error = Zero3)

\* A third tick, flown in Emergency after two waypoint ticks: the integral
\* holds the errors of all three calls.
C28_Witness ==
    /\ Executed
    /\ Len(control_history) = 3
    /\ ~control_history[1].emergency
    /\ ~control_history[2].emergency
    /\ emergency_mode
    /\ "waypoint" = control_history[2].mode
    /\ position_controller.prev_error[1] = 0
    /\ position_controller.integral[1] = 2000
    /\ position_controller.prev_error[2] < 0
    /\ orientation_controller.integral = Zero3

\* v lies between a and b on every axis, and differs from b wherever a does.
StrictBlend(v, a, b) ==
    \A i \in 1..3 :
        /\ Min(a[i], b[i]) <= v[i] /\ v[i] <= Max(a[i], b[i])
        /\ a[i] # b[i] => v[i] # b[i]

\* C29: a call of process_state with an invisible target leaves the target
\* filter (estimate and error) and target_history as they were; when the
\* target is visible again the filter is not seeded anew: the reported target
\* position is a blend of the estimate held before and the new measurement,
\* not the measurement itself.
C29_TargetFilterHeld ==
    [][PerceiveStep =>
         LET target == Get(sim_state').target
         IN  /\ ~target.is_visible =>
                    /\ target_filter' = target_filter
                    /\ target_history' = target_history
             /\ (target.is_visible /\ ~IsNone(target_filter.estimate)
                   /\ raised' = "") =>
                    /\ Get(perception').target_position = target_filter'.estimate
                    /\ StrictBlend(Get(Get(perception').target_position),
                                   Get(target_filter.estimate), target.position)
                    /\ target_filter'.estimate_error < target_filter.estimate_error
                           + process_noise]_vars

\* The target was seen at x = 10 m, lost for a tick, and seen again at
\* x = 12 m: the reported position lies strictly between the two.
C29_Witness ==
    /\ Perceived
    /\ phase = "control"
    /\ clock = 5
    /\ Len(target_history) = 2
    /\ target_history[1][1] = 1
    /\ target_history[1][2] = <<1000, 500, 0>>
    /\ target_history[2][1] = 5
    /\ target_history[2][2] = <<1200, 500, 0>>
    /\ Get(Get(perception).target_position)[1] > 1000
    /\ Get(Get(perception).target_position)[1] < 1200

-----------------------------------------------------------------------------
\* A long flight: process_state and execute_command in turn for HistoryTicks
\* ticks, enough for every history to reach its limit.  The inputs are fixed
\* by the tick number: the drone is measured at P0 and P1 in turn, the target
\* is hidden on every third tick, and the command is one hover command.

HistoryTicks == 1002

HistorySnapshot(n) ==
    Snapshot(IF n % 2 = 0 THEN P0 ELSE P1, AtRest, 85,
             IF n % 3 = 0 THEN TargetHidden ELSE TargetVisible, <<>>)

HistoryCommand == ControlCommand("h1", "hover", None, 100)

ProcessStateLong == ticks < HistoryTicks /\ ProcessStep(HistorySnapshot(ticks))

InitHistory == Init /\ scenario = "hover"

NextHistory == ProcessStateLong \/ ExecuteCommand(HistoryCommand)

SpecHistory == InitHistory /\ [][NextHistory]_vars

\* history after x is appended under the limit of 50, oldest dropped first
Pushed(history, x) ==
    IF Len(history) = max_history_size
    THEN Append(SubSeq(history, 2, Len(history)), x)
    ELSE Append(history, x)

\* C30: the histories stay bounded over any number of ticks.  control_history
\* holds at most 1000 entries: each call appends one entry, and the list is
\* cut to its last 500 entries when it would exceed 1000; the last entry
\* records thrust, pitch, roll and yaw of the command returned.
\* position_history, velocity_history and target_history hold at most 50
\* entries each, the oldest dropped first.
C30_HistoriesBounded ==
    /\ [](/\ Len(control_history) <= control_history_limit
          /\ Len(position_history) <= max_history_size
          /\ Len(velocity_history) <= max_history_size
          /\ Len(target_history) <= max_history_size
          /\ Executed =>
                 control_history[Len(control_history)].command
                     = [thrust |-> Get(drone_cmd).thrust,
                        pitch |-> Get(drone_cmd).pitch,
                        roll |-> Get(drone_cmd).roll,
                        yaw |-> Get(drone_cmd).yaw])
    /\ [][/\ ExecuteStep =>
               LET entry == control_history'[Len(control_history')]
                   h == Append(control_history, entry)
               IN  control_history' =
                       IF Len(control_history) = control_history_limit
                       THEN SubSeq(h, Len(h) - control_history_keep + 1, Len(h))
                       ELSE h
          /\ (PerceiveStep /\ raised' = "") =>
               LET s == Get(sim_state')
               IN  /\ position_history'
                          = Pushed(position_history, <<clock', s.drone.position>>)
                   /\ velocity_history'
                          = Pushed(velocity_history, <<clock', s.drone.velocity>>)
                   /\ target_history'
                          = IF s.target.is_visible
                            THEN Pushed(target_history, <<clock', s.target.position>>)
                            ELSE target_history]_vars

\* The call that would make control_history 1001 entries long: the last 500
\* are kept, and the other histories are full.
C30_Witness ==
    /\ Executed
    /\ ticks = 1001
    /\ Len(control_history) = control_history_keep
    /\ control_history[1].timestamp = 1004
    /\ control_history[control_history_keep].timestamp = 2002
    /\ Len(position_history) = max_history_size
    /\ Len(target_history) = max_history_size
    /\ position_history[1][1] = 1903
    /\ position_history[max_history_size][1] = 2001

=============================================================================
